---------------------------- MODULE Spec2Model ----------------------------
(***************************************************************************)
(* A model of logmon: the Redis log subscriber (src/tail.py), the display  *)
(* buffer with its filtered-view cache, layout and scroll logic            *)
(* (src/ui.py) and the monitor loop that ties them together                *)
(* (src/monitor.py).                                                       *)
(*                                                                         *)
(* Strings whose characters matter (message, raw, search, logger_name) are *)
(* sequences of one-character strings; level and source names are strings. *)
(***************************************************************************)
EXTENDS Integers, Sequences, FiniteSets, TLC

VARIABLES
    lines,            \* LogDisplay.lines: the deque, oldest first
    filters,          \* LogDisplay.filters: [level, source, search]
    paused,           \* LogDisplay.paused
    stats,            \* LogDisplay.stats: source -> (LEVEL -> count)
    scroll_offset,    \* LogDisplay.scroll_offset
    cache_valid,      \* LogDisplay._cache_valid
    cached_filtered,  \* LogDisplay._cached_filtered
    cache_version,    \* LogDisplay._cache_version
    added,            \* history: the records add_line accepted since the last clear
    args,             \* the arguments of a function called on its own
    returned,         \* <<what it returned>>, Pending until it has
    queue,            \* RedisLogSubscriber.queue, oldest first
    sub_running,      \* RedisLogSubscriber._running
    p_pc,             \* where the subscriber thread is in _subscribe_loop
    p_line,           \* its log_line
    c_pc,             \* where the consumer is in get_new_lines
    c_lines,          \* the list get_new_lines is filling
    pushed,           \* history: the records put on the queue, in order
    taken,            \* history: the records the consumer took off the queue
    r_pc,             \* where a reading thread is in its view read
    r_lines_snapshot, \* _rebuild_cache's lines_snapshot
    r_new_filtered,   \* _rebuild_cache's new_filtered
    r_i,              \* index of the line its loop is at
    w_pc,             \* where a writing thread is in its mutation
    w_line,           \* the line add_line was called with
    m_pc,             \* where the main thread is in LogMonitor.run
    running,          \* LogMonitor.running
    render_needed,    \* LogMonitor._render_needed
    has_new_logs,     \* run's has_new_logs
    live,             \* whether LogMonitor._live is set
    connection_error, \* LogDisplay.connection_error
    has_msvcrt,       \* whether import msvcrt succeeds (Windows)
    keys_read,        \* keys the running _check_keyboard has handled
    shown             \* what the main thread's last step rendered, if it did

\* the display
dvars == <<lines, filters, paused, stats, scroll_offset,
           cache_valid, cached_filtered, cache_version, added>>
\* a function call on its own
fvars == <<args, returned>>

\* the subscriber and its queue
qvars == <<queue, sub_running, p_pc, p_line, c_pc, c_lines, pushed, taken>>

\* two threads inside LogDisplay
tvars == <<r_pc, r_lines_snapshot, r_new_filtered, r_i, w_pc, w_line>>

\* the monitor's main thread
mvars == <<m_pc, running, render_needed, has_new_logs, live, connection_error,
           has_msvcrt, keys_read, shown>>

vars == <<dvars, fvars, qvars, tvars, mvars>>
\* everything but the display
not_dvars == <<fvars, qvars, tvars, mvars>>
\* everything but the function call
not_fvars == <<dvars, qvars, tvars, mvars>>
\* everything but the subscriber
not_qvars == <<dvars, fvars, tvars, mvars>>
\* everything but the display and the threads inside it
not_dtvars == <<fvars, qvars, mvars>>
\* what the monitor and its subscriber never touch
not_mvars == <<fvars, tvars>>

-----------------------------------------------------------------------------
(* Bounds of the model *)

\* capacity of the display buffer (MonitorConfig.max_lines, 1000 by default)
MaxLinesCfg == 2
\* cap of the invalidation counter: add_line, clear and the filter setters
\* are not taken once _cache_version has reached it
MaxVersion == 4
\* the same cap where the scroll operations are explored as well
MaxScrollVersion == 4
\* scroll_up is not taken above this offset
MaxScroll == 8
\* capacity of the subscriber's queue (Queue(maxsize=1000) in the program)
QueueMaxsize == 2
\* messages the subscriber thread puts on the queue
MaxPush == 4
\* messages the feed delivers while the monitor runs
MaxFeed == 3
\* keys one call of _check_keyboard handles
MaxKeysPerTick == 2
\* offset up to which the monitor's keys scroll further up
MaxKeyScroll == 2
\* invalidations the monitor's keys make
MaxKeyVersion == 2
\* invalidations while a reader and a writer share the display
MaxRaceVersion == 3
\* longest message the layout is called with, in characters
MaxMsgLen == 3
\* widths 1..MaxSmallWidth are tried besides the usual ones
MaxSmallWidth == 3
\* largest max_lines argument tried
MaxRowsArg == 5

-----------------------------------------------------------------------------
(* Values *)

None == "<None>"
\* nothing returned yet; a returned value v is held as <<v>>
Pending == <<>>
NL == "\n"

Max(a, b) == IF a >= b THEN a ELSE b
Min(a, b) == IF a <= b THEN a ELSE b

Rep(c, n) == [i \in 1..n |-> c]

\* the last n elements of a sequence
LastN(s, n) == SubSeq(s, Max(1, Len(s) - n + 1), Len(s))

\* truth value of an Optional[str], and of a str held as a sequence
TruthyStr(x) == x # None /\ x # ""
TruthySeq(s) == s # <<>>

\* str.upper() on the level names that occur
Upper(s) ==
    CASE s = "error" -> "ERROR"
      [] s = "Error" -> "ERROR"
      [] s = "info"  -> "INFO"
      [] OTHER       -> s

\* str.lower() on one character, and on a string
LowerChar(c) ==
    CASE c = "A" -> "a"
      [] c = "B" -> "b"
      [] OTHER   -> c

Lower(s) == [i \in DOMAIN s |-> LowerChar(s[i])]

\* needle in hay
Contains(hay, needle) ==
    \E i \in 0..(Len(hay) - Len(needle)) :
        SubSeq(hay, i + 1, i + Len(needle)) = needle

\* rich.cells.cell_len: columns a string takes; "W" stands for a wide
\* character (an emoji), "z" for a zero-width one, a newline takes none
CellWidth(c) ==
    CASE c = "W" -> 2
      [] c = "z" -> 0
      [] c = NL  -> 0
      [] OTHER   -> 1

\* the sum of the widths, each of which is 0, 1 or 2
cell_len(s) ==
    Cardinality({i \in DOMAIN s : CellWidth(s[i]) >= 1})
        + Cardinality({i \in DOMAIN s : CellWidth(s[i]) >= 2})

\* the LogLine dataclass
LogLine(src, lvl, lg, msg, rw) ==
    [source |-> src, timestamp |-> "12:00:00,000", level |-> lvl,
     logger_name |-> lg, message |-> msg, raw |-> rw]

\* the records the model feeds in
LinePool ==
    { LogLine("backend", "ERROR", <<>>, <<"a">>, <<"a", "b">>),
      LogLine("batch", "error", <<"l", "g">>,
              <<"a", NL, "a", NL, "W", NL, NL, "a", NL, "a", NL>>, <<"A", "B">>),
      LogLine("backend", "INFO", <<>>, Rep("a", 20), <<"b", "a">>) }

LevelKeys == {None, "ERROR", "info"}
SourceKeys == {None, "backend", "batch"}
SearchPool == {<<>>, <<"a">>, <<"A", "b">>}


-----------------------------------------------------------------------------
(* LogDisplay._calc_visual_lines *)

\* msg.rstrip('\n')
RECURSIVE rstrip_nl(_)
rstrip_nl(s) ==
    IF s # <<>> /\ s[Len(s)] = NL
    THEN rstrip_nl(SubSeq(s, 1, Len(s) - 1))
    ELSE s

\* while cell_len(msg) > max_visual_width and len(msg) > 0: msg = msg[:-1]
\* The loop stops at the first length, going down, whose cells fit: that
\* is the longest prefix that fits, since a prefix never has more cells
\* than a longer one (and the empty prefix fits).
trim_cells(msg, max_visual_width) ==
    IF cell_len(msg) > max_visual_width /\ Len(msg) > 0
    THEN LET fits == {k \in 0..(Len(msg) - 1) :
                         cell_len(SubSeq(msg, 1, k)) <= max_visual_width \/ k = 0}
         IN  SubSeq(msg, 1, CHOOSE k \in fits : \A j \in fits : j <= k)
    ELSE msg

\* msg.split('\n')
RECURSIVE split_nl(_)
split_nl(s) ==
    IF \E i \in 1..Len(s) : s[i] = NL
    THEN LET i == CHOOSE k \in 1..Len(s) :
                     s[k] = NL /\ \A j \in 1..(k - 1) : s[j] # NL
         IN  <<SubSeq(s, 1, i - 1)>> \o split_nl(SubSeq(s, i + 1, Len(s)))
    ELSE <<s>>

prefix_len(line) ==
    IF TruthySeq(line.logger_name)
    THEN 6 + 13 + 4 + Min(Len(line.logger_name), 15) + 2
    ELSE 6 + 13 + 4

\* the message after the truncation of lines 131-138
truncated_msg(line, available_width, max_lines) ==
    LET msg0 == rstrip_nl(line.message)
        max_visual_width == available_width * max_lines
        msg1 == IF Len(msg0) > max_visual_width
                THEN SubSeq(msg0, 1, max_visual_width)
                ELSE msg0
    IN  trim_cells(msg1, max_visual_width)

\* rows one part of the message takes
part_rows(line_len, available_width) ==
    IF line_len = 0
    THEN 1
    ELSE Max(1, (line_len + available_width - 1) \div available_width)

\* the loop without the cap: the rows of all the parts, however many
RECURSIVE visual_loop_uncapped(_, _, _, _, _, _)
visual_loop_uncapped(msg_lines, i, total_visual, plen, available_width, max_lines) ==
    IF i > Len(msg_lines)
    THEN Max(1, total_visual)
    ELSE LET line_len == IF i = 1
                         THEN plen + cell_len(msg_lines[i])
                         ELSE cell_len(msg_lines[i])
         IN  visual_loop_uncapped(msg_lines, i + 1,
                                  total_visual + part_rows(line_len, available_width),
                                  plen, available_width, max_lines)

\* the for loop of lines 144-161, from part i on, with its early return
RECURSIVE visual_loop(_, _, _, _, _, _)
visual_loop(msg_lines, i, total_visual, plen, available_width, max_lines) ==
    IF i > Len(msg_lines)
    THEN Max(1, Min(total_visual, max_lines))
    ELSE LET line_len == IF i = 1
                         THEN plen + cell_len(msg_lines[i])
                         ELSE cell_len(msg_lines[i])
             total == total_visual + part_rows(line_len, available_width)
         IN  IF total >= max_lines
             THEN max_lines
             ELSE visual_loop(msg_lines, i + 1, total, plen,
                              available_width, max_lines)

_calc_visual_lines(line, available_width, max_lines) ==
    LET msg == truncated_msg(line, available_width, max_lines)
        all_lines == split_nl(msg)
        msg_lines == IF Len(all_lines) > max_lines
                     THEN SubSeq(all_lines, 1, max_lines)
                     ELSE all_lines
    IN  visual_loop(msg_lines, 1, 0, prefix_len(line), available_width, max_lines)

\* the default of the max_lines parameter
DefaultMaxRows == 5

-----------------------------------------------------------------------------
(* LogDisplay._rebuild_cache *)

\* the filter tests with the level compared as written, case and all
passes_filters_exact_level(line, f) ==
    /\ ~(TruthyStr(f.level) /\ line.level # f.level)
    /\ ~(TruthyStr(f.source) /\ line.source # f.source)
    /\ ~(TruthySeq(f.search) /\ ~Contains(Lower(line.raw), Lower(f.search)))

\* the three continue tests of the loop body: TRUE when the line is kept
passes_filters(line, f) ==
    /\ ~(TruthyStr(f.level) /\ Upper(line.level) # Upper(f.level))
    /\ ~(TruthyStr(f.source) /\ line.source # f.source)
    /\ ~(TruthySeq(f.search) /\ ~Contains(Lower(line.raw), Lower(f.search)))

RECURSIVE filter_loop(_, _, _, _)
filter_loop(lines_snapshot, i, new_filtered, f) ==
    IF i > Len(lines_snapshot)
    THEN new_filtered
    ELSE filter_loop(lines_snapshot, i + 1,
                     IF passes_filters(lines_snapshot[i], f)
                     THEN Append(new_filtered, lines_snapshot[i])
                     ELSE new_filtered,
                     f)

\* the list _rebuild_cache stores
rebuilt_filtered(buf, f) == filter_loop(buf, 1, <<>>, f)

-----------------------------------------------------------------------------
(* LogDisplay.get_filtered_lines_by_visual, get_total_visual_lines *)

\* _calc_visual_lines(line, available_width) with the default max_lines,
\* worked out once for the records and the widths of the model
LayoutWidths == {40, 60}
VisualRowsTable ==
    [line \in LinePool |->
        [w \in LayoutWidths |-> _calc_visual_lines(line, w, DefaultMaxRows)]]

rows_for(line, available_width) ==
    IF line \in LinePool /\ available_width \in LayoutWidths
    THEN VisualRowsTable[line][available_width]
    ELSE _calc_visual_lines(line, available_width, DefaultMaxRows)

visual_counts_of(filtered_snapshot, available_width) ==
    [i \in 1..Len(filtered_snapshot) |->
        rows_for(filtered_snapshot[i], available_width)]

\* a backward walk that stops only once the rows are above the offset
RECURSIVE end_idx_loop_above(_, _, _, _)
end_idx_loop_above(visual_counts, i, visual_from_end, offset) ==
    IF i < 1
    THEN Len(visual_counts)
    ELSE IF visual_from_end + visual_counts[i] > offset
         THEN i
         ELSE end_idx_loop_above(visual_counts, i - 1,
                                 visual_from_end + visual_counts[i], offset)

\* the backward walk of lines 200-206 (indices are 1-based here)
RECURSIVE end_idx_loop(_, _, _, _)
end_idx_loop(visual_counts, i, visual_from_end, offset) ==
    IF i < 1
    THEN Len(visual_counts)
    ELSE IF visual_from_end + visual_counts[i] >= offset
         THEN i
         ELSE end_idx_loop(visual_counts, i - 1,
                           visual_from_end + visual_counts[i], offset)

end_entry_idx(visual_counts, offset) ==
    IF offset = 0
    THEN Len(visual_counts)
    ELSE end_idx_loop(visual_counts, Len(visual_counts), 0, offset)

\* a selection loop that also takes the first entry that does not fit
RECURSIVE select_loop_partial(_, _, _, _, _, _)
select_loop_partial(snap, visual_counts, i, accumulated_visual, result, visible_height) ==
    IF i < 1
    THEN result
    ELSE IF accumulated_visual + visual_counts[i] <= visible_height
         THEN select_loop_partial(snap, visual_counts, i - 1,
                                  accumulated_visual + visual_counts[i],
                                  <<snap[i]>> \o result, visible_height)
         ELSE <<snap[i]>> \o result

\* a selection loop that passes over an entry that does not fit and goes on
RECURSIVE select_loop_skipping(_, _, _, _, _, _)
select_loop_skipping(snap, visual_counts, i, accumulated_visual, result, visible_height) ==
    IF i < 1
    THEN result
    ELSE IF accumulated_visual + visual_counts[i] <= visible_height
         THEN select_loop_skipping(snap, visual_counts, i - 1,
                                   accumulated_visual + visual_counts[i],
                                   <<snap[i]>> \o result, visible_height)
         ELSE select_loop_skipping(snap, visual_counts, i - 1,
                                   accumulated_visual, result, visible_height)

\* the backward walk of lines 213-222 over the snapshot snap
RECURSIVE select_loop(_, _, _, _, _, _)
select_loop(snap, visual_counts, i, accumulated_visual, result, visible_height) ==
    IF i < 1
    THEN result
    ELSE IF accumulated_visual + visual_counts[i] <= visible_height
         THEN select_loop(snap, visual_counts, i - 1,
                          accumulated_visual + visual_counts[i],
                          <<snap[i]>> \o result, visible_height)
         ELSE result

\* the window, from the snapshot of the cache on
select_window(filtered_snapshot, offset, visible_height, available_width) ==
    IF filtered_snapshot = <<>>
    THEN <<>>
    ELSE LET visual_counts == visual_counts_of(filtered_snapshot, available_width)
         IN  select_loop(filtered_snapshot, visual_counts,
                         end_entry_idx(visual_counts, offset), 0, <<>>,
                         visible_height)

RECURSIVE SumSeq(_)
SumSeq(s) == IF s = <<>> THEN 0 ELSE s[1] + SumSeq(Tail(s))

total_visual_of(filtered_snapshot, available_width) ==
    SumSeq(visual_counts_of(filtered_snapshot, available_width))


-----------------------------------------------------------------------------
(* LogDisplay: the operations, each one call made by the consumer thread *)

\* viewport sizes the calls are made with
ViewHeights == {0, 2, 3, 5, 8}
ViewWidths == {40, 60}
\* terminal sizes render is called with
TermHeights == {10, 14, 16, 20}
TermWidths == {44, 64}
\* scroll_up / scroll_down steps: the default and the one the arrow keys pass
ScrollSteps == {2, 6}

\* a bounded append that refuses the new record when full instead of evicting
deque_append_drop_new(d, x, maxlen) ==
    IF Len(d) >= maxlen THEN d ELSE Append(d, x)

\* deque(maxlen=max_lines).append
deque_append(d, x, maxlen) ==
    IF maxlen = 0
    THEN <<>>
    ELSE IF Len(d) >= maxlen
         THEN Append(Tail(d), x)
         ELSE Append(d, x)

\* dict.get(key, 0)
dict_get(d, k) == IF k \in DOMAIN d THEN d[k] ELSE 0

\* d[k] = v on a dict held as a function
dict_set(d, k, v) == [x \in DOMAIN d \cup {k} |-> IF x = k THEN v ELSE d[x]]

\* add_line that records a level as seen once, however often it was seen
stats_add_seen(st, line) ==
    LET st1 == IF line.source \in DOMAIN st
               THEN st
               ELSE dict_set(st, line.source, <<>>)
    IN  dict_set(st1, line.source,
                 dict_set(st1[line.source], Upper(line.level), 1))

\* the stats update of add_line
stats_add(st, line) ==
    LET st1 == IF line.source \in DOMAIN st
               THEN st
               ELSE dict_set(st, line.source, <<>>)
        level == Upper(line.level)
    IN  dict_set(st1, line.source,
                 dict_set(st1[line.source], level,
                          dict_get(st1[line.source], level) + 1))

\* an invalidation that bumps the version and leaves the flag alone
_invalidate_cache_version_only ==
    /\ cache_valid' = cache_valid
    /\ cache_version' = cache_version + 1

_invalidate_cache ==
    /\ cache_valid' = FALSE
    /\ cache_version' = cache_version + 1

add_line(line) ==
    IF paused
    THEN UNCHANGED dvars
    ELSE /\ lines' = deque_append(lines, line, MaxLinesCfg)
         /\ _invalidate_cache
         /\ stats' = stats_add(stats, line)
         /\ added' = Append(added, line)
         /\ UNCHANGED <<filters, paused, scroll_offset, cached_filtered>>

clear ==
    /\ lines' = <<>>
    /\ stats' = <<>>
    /\ cache_valid' = FALSE
    /\ cache_version' = cache_version + 1
    /\ cached_filtered' = <<>>
    /\ added' = <<>>
    /\ UNCHANGED <<filters, paused, scroll_offset>>

\* a level setter that also drops the source filter
set_level_filter_alone(level) ==
    /\ filters' = [filters EXCEPT !.level = level, !.source = None]
    /\ _invalidate_cache
    /\ UNCHANGED <<lines, paused, stats, scroll_offset, cached_filtered, added>>

set_level_filter(level) ==
    /\ filters' = [filters EXCEPT !.level = level]
    /\ _invalidate_cache
    /\ UNCHANGED <<lines, paused, stats, scroll_offset, cached_filtered, added>>

set_source_filter(source) ==
    /\ filters' = [filters EXCEPT !.source = source]
    /\ _invalidate_cache
    /\ UNCHANGED <<lines, paused, stats, scroll_offset, cached_filtered, added>>

toggle_pause ==
    /\ paused' = ~paused
    /\ UNCHANGED <<lines, filters, stats, scroll_offset,
                   cache_valid, cached_filtered, cache_version, added>>

\* what a read finds in the cache once it has rebuilt it if it was stale
\* (lines 172-180 and 228-235: check, _rebuild_cache, snapshot)
filtered_snapshot_now ==
    IF cache_valid THEN cached_filtered ELSE rebuilt_filtered(lines, filters)

\* the effect of that on the cache
_rebuild_if_stale ==
    /\ cached_filtered' = filtered_snapshot_now
    /\ cache_valid' = TRUE

\* the list get_filtered_lines_by_visual returns
filtered_lines_by_visual(visible_height, available_width) ==
    select_window(filtered_snapshot_now, scroll_offset,
                  visible_height, available_width)

\* the call itself: what it leaves behind is the rebuilt cache
get_filtered_lines_by_visual(visible_height, available_width) ==
    /\ _rebuild_if_stale
    /\ UNCHANGED <<lines, filters, paused, stats, scroll_offset,
                   cache_version, added>>

\* the number get_total_visual_lines returns
total_visual_lines(available_width) ==
    total_visual_of(filtered_snapshot_now, available_width)

get_total_visual_lines(available_width) ==
    /\ _rebuild_if_stale
    /\ UNCHANGED <<lines, filters, paused, stats, scroll_offset,
                   cache_version, added>>

\* a clamp that takes the largest offset for the one to store
clamped_offset_to_max(offset, total_visual, visible_lines) ==
    Max(0, total_visual - visible_lines)

\* the offset clamp_scroll stores
clamped_offset(offset, total_visual, visible_lines) ==
    Min(offset, Max(0, total_visual - visible_lines))

clamp_scroll(visible_lines, available_width) ==
    /\ _rebuild_if_stale
    /\ scroll_offset' =
           clamped_offset(scroll_offset, total_visual_lines(available_width),
                          visible_lines)
    /\ UNCHANGED <<lines, filters, paused, stats, cache_version, added>>

scroll_up(n) ==
    /\ scroll_offset' = scroll_offset + n
    /\ UNCHANGED <<lines, filters, paused, stats,
                   cache_valid, cached_filtered, cache_version, added>>

scroll_down(n) ==
    /\ scroll_offset' = Max(0, scroll_offset - n)
    /\ UNCHANGED <<lines, filters, paused, stats,
                   cache_valid, cached_filtered, cache_version, added>>

scroll_to_bottom ==
    /\ scroll_offset' = 0
    /\ UNCHANGED <<lines, filters, paused, stats,
                   cache_valid, cached_filtered, cache_version, added>>

\* render(): the height of the body panel
body_height(height) == Max(5, height - 8)
\* the width without its floor of 40
logs_available_width_unguarded(width) == width - 4

\* render_logs(): the viewport it selects the window for
logs_available_width(width) == Max(40, width - 4)
logs_content_height(height) == Max(1, height - 3)

\* the lines render_logs selects for a terminal of this size
rendered_lines(height, width) ==
    filtered_lines_by_visual(logs_content_height(body_height(height)),
                             logs_available_width(width))

\* render(height, width): render_logs is the part that reads the display
render(height, width) ==
    /\ _rebuild_if_stale
    /\ UNCHANGED <<lines, filters, paused, stats, scroll_offset,
                   cache_version, added>>

\* LogDisplay(max_lines=..., filters=FilterState(search=...)) after __post_init__
display_init ==
    /\ lines = <<>>
    /\ filters \in [level : {None}, source : {None}, search : SearchPool]
    /\ paused = FALSE
    /\ stats = <<>>
    /\ scroll_offset = 0
    /\ cache_valid = FALSE
    /\ cached_filtered = <<>>
    /\ cache_version = 0
    /\ added = <<>>

\* no function is being called on its own
NoCall ==
    /\ args = <<>>
    /\ returned = Pending

\* log_line before a message has been parsed
NoLine == [unbound |-> TRUE]

\* RedisLogSubscriber.__init__: an empty queue, no thread yet
subscriber_init ==
    /\ queue = <<>>
    /\ sub_running = FALSE
    /\ p_pc = "not_started"
    /\ p_line = NoLine
    /\ c_pc = "idle"
    /\ c_lines = <<>>
    /\ pushed = <<>>
    /\ taken = <<>>

\* no thread is inside a LogDisplay method
threads_init ==
    /\ r_pc = "idle"
    /\ r_lines_snapshot = <<>>
    /\ r_new_filtered = <<>>
    /\ r_i = 0
    /\ w_pc = "idle"
    /\ w_line = NoLine

\* the step rendered nothing
NoShown == [by |-> "none", offset |-> 0, max_offset |-> 0]

\* LogMonitor.__init__, on a platform with or without msvcrt
monitor_init(msvcrt) ==
    /\ m_pc = "init"
    /\ running = FALSE
    /\ render_needed = TRUE
    /\ has_new_logs = FALSE
    /\ live = FALSE
    /\ connection_error = FALSE
    /\ has_msvcrt = msvcrt
    /\ keys_read = 0
    /\ shown = NoShown

Init ==
    /\ display_init
    /\ NoCall
    /\ subscriber_init
    /\ threads_init
    /\ monitor_init(FALSE)

Next ==
    \/ /\ cache_version < MaxVersion
       /\ \E line \in LinePool : add_line(line)
       /\ UNCHANGED not_dvars
    \/ /\ cache_version < MaxVersion
       /\ clear
       /\ UNCHANGED not_dvars
    \/ /\ cache_version < MaxVersion
       /\ \E level \in LevelKeys : set_level_filter(level)
       /\ UNCHANGED not_dvars
    \/ /\ cache_version < MaxVersion
       /\ \E source \in SourceKeys : set_source_filter(source)
       /\ UNCHANGED not_dvars
    \/ toggle_pause /\ UNCHANGED not_dvars
    \/ /\ \E h \in ViewHeights, w \in ViewWidths : get_filtered_lines_by_visual(h, w)
       /\ UNCHANGED not_dvars
    \/ /\ \E w \in ViewWidths : get_total_visual_lines(w)
       /\ UNCHANGED not_dvars

Spec == Init /\ [][Next]_vars

-----------------------------------------------------------------------------
(* Properties of the buffer, the filter and the cache *)

\* C1: the buffer never holds more than max_lines records and is always the
\* most recent max_lines accepted records in arrival order, so every add at
\* capacity evicts exactly the oldest record.
C1_BufferIsNewestSuffix ==
    /\ Len(lines) <= MaxLinesCfg
    /\ lines = LastN(added, MaxLinesCfg)

\* more records were accepted than fit, and the oldest accepted one is gone
C1_Witness ==
    /\ Len(added) > MaxLinesCfg
    /\ Len(lines) = MaxLinesCfg
    /\ lines[1] # added[1]

\* two level names that differ at most in case
SameLevelName(a, b) ==
    \/ a = b
    \/ \E cls \in {{"ERROR", "error", "Error"}, {"INFO", "info"}} :
           a \in cls /\ b \in cls

\* two characters that differ at most in case
SameCharNoCase(c, d) ==
    \/ c = d
    \/ {c, d} \in {{"a", "A"}, {"b", "B"}}

\* needle occurs in hay, case ignored
OccursNoCase(hay, needle) ==
    \E i \in 0..(Len(hay) - Len(needle)) :
        \A j \in 1..Len(needle) : SameCharNoCase(hay[i + j], needle[j])

\* the three predicates of the filter state, as the specification words them
Accepts(line, f) ==
    /\ f.level = None \/ SameLevelName(line.level, f.level)
    /\ f.source = None \/ line.source = f.source
    /\ f.search = <<>> \/ OccursNoCase(line.raw, f.search)

\* the positions of the buffer the filter accepts
AcceptedIdx == {i \in 1..Len(lines) : Accepts(lines[i], filters)}

\* the k-th smallest element of a set of numbers
KthOf(S, k) == CHOOSE i \in S : Cardinality({j \in S : j < i}) = k - 1

\* C3: the view a rebuild produced holds exactly the buffer records accepted
\* by all three predicates, each once, in buffer order.
C3_ViewIsExactlyTheMatches ==
    cache_valid =>
        /\ Len(cached_filtered) = Cardinality(AcceptedIdx)
        /\ \A k \in 1..Len(cached_filtered) :
               cached_filtered[k] = lines[KthOf(AcceptedIdx, k)]

\* a rebuilt view under all three predicates that keeps one record and
\* leaves another out, the level matching in a different case
C3_Witness ==
    /\ cache_valid
    /\ filters.level # None /\ filters.source # None /\ filters.search # <<>>
    /\ Len(cached_filtered) >= 1
    /\ Len(lines) > Len(cached_filtered)
    /\ \E k \in 1..Len(cached_filtered) : cached_filtered[k].level # filters.level

\* C4: whenever the cache is marked valid it is the filter applied to the
\* current buffer under the current filter state, so a read after add_line,
\* clear or a filter change returns the post-mutation view.
C4_ValidCacheIsCurrent ==
    /\ cache_valid => cached_filtered = rebuilt_filtered(lines, filters)
    /\ \A w \in ViewWidths :
           total_visual_lines(w) =
               total_visual_of(rebuilt_filtered(lines, filters), w)
    /\ \A h \in ViewHeights, w \in ViewWidths :
           filtered_lines_by_visual(h, w) =
               select_window(rebuilt_filtered(lines, filters), scroll_offset, h, w)

\* a read that followed several mutations and found records
C4_Witness ==
    /\ cache_valid
    /\ cache_version >= 3
    /\ cached_filtered # <<>>
    /\ filters.level # None

-----------------------------------------------------------------------------
(* The scroll controller and the window selector, with records arriving *)

\* LogDisplay(max_lines=...) after __post_init__, no filter set
InitScroll ==
    /\ display_init
    /\ filters.search = <<>>
    /\ NoCall
    /\ subscriber_init
    /\ threads_init
    /\ monitor_init(FALSE)

NextScroll ==
    \/ /\ cache_version < MaxScrollVersion
       /\ \E line \in LinePool : add_line(line)
       /\ UNCHANGED not_dvars
    \/ /\ cache_version < MaxScrollVersion
       /\ \E source \in SourceKeys : set_source_filter(source)
       /\ UNCHANGED not_dvars
    \/ /\ scroll_offset <= MaxScroll
       /\ \E n \in ScrollSteps : scroll_up(n)
       /\ UNCHANGED not_dvars
    \/ /\ \E n \in ScrollSteps : scroll_down(n)
       /\ UNCHANGED not_dvars
    \/ scroll_to_bottom /\ UNCHANGED not_dvars
    \/ /\ \E h \in ViewHeights, w \in ViewWidths : clamp_scroll(h, w)
       /\ UNCHANGED not_dvars
    \/ /\ \E h \in ViewHeights, w \in ViewWidths : get_filtered_lines_by_visual(h, w)
       /\ UNCHANGED not_dvars
    \/ /\ \E height \in TermHeights, width \in TermWidths : render(height, width)
       /\ UNCHANGED not_dvars

SpecScroll == InitScroll /\ [][NextScroll]_vars

\* C7: for every viewport the rows of the records in the window sum to at
\* most the viewport height: a record that does not fit is left out whole.
C7_WindowFitsViewport ==
    \A h \in ViewHeights, w \in ViewWidths :
        total_visual_of(filtered_lines_by_visual(h, w), w) <= h

\* a scrolled window, read from a rebuilt cache, that shows some records of
\* the view and leaves out an older one that no longer fits
C7_Witness ==
    /\ cache_valid
    /\ scroll_offset > 0
    /\ \E h \in ViewHeights, w \in ViewWidths :
           LET win == filtered_lines_by_visual(h, w)
           IN  /\ Len(win) >= 1
               /\ Len(win) < Len(cached_filtered)
               /\ total_visual_of(win, w) < h
               /\ total_visual_lines(w) > h

\* the newest record of the filtered view closes the window
EndsWithNewest(win, view) ==
    /\ win # <<>>
    /\ win[Len(win)] = view[Len(view)]

\* C8: scroll_to_bottom sets the offset to 0, only scroll_up moves it off 0,
\* and at offset 0 every window the render step selects from a non-empty
\* view ends with the newest record of the view.
C8_BottomShowsNewest ==
    /\ [][scroll_to_bottom => scroll_offset' = 0]_vars
    /\ [][(scroll_offset = 0 /\ ~(\E n \in ScrollSteps : scroll_up(n)))
              => scroll_offset' = 0]_vars
    /\ [](\A height \in TermHeights, width \in TermWidths :
              (scroll_offset = 0 /\ filtered_snapshot_now # <<>>)
                  => EndsWithNewest(rendered_lines(height, width),
                                    filtered_snapshot_now))

\* C9: the offset is never negative, and in every reachable state the
\* offset clamp_scroll(h, w) stores is at most max(0, total rows - h) for the
\* current view, is not above the offset it found, and is left as it is by a
\* second clamp with the same arguments.
C9_ClampBounds ==
    /\ scroll_offset >= 0
    /\ \A h \in ViewHeights, w \in ViewWidths :
           LET total == total_visual_lines(w)
               stored == clamped_offset(scroll_offset, total, h)
           IN  /\ stored >= 0
               /\ stored <= Max(0, total - h)
               /\ stored <= scroll_offset
               /\ clamped_offset(stored, total, h) = stored

\* an odd offset: scroll_up and scroll_down move in even steps from 0, so
\* only a clamp that cut the offset down to total rows - h leaves one
C9_Witness ==
    /\ scroll_offset % 2 = 1
    /\ cache_valid

-----------------------------------------------------------------------------
(* _calc_visual_lines called on its own *)

\* the characters of a message: narrow, wide, zero-width, newline
MsgChars == {"a", "W", "z", NL}

RECURSIVE SeqsUpTo(_, _)
SeqsUpTo(S, n) ==
    IF n = 0
    THEN {<<>>}
    ELSE LET shorter == SeqsUpTo(S, n - 1)
         IN  shorter \cup {Append(q, c) : q \in shorter, c \in S}

LayoutMessages == SeqsUpTo(MsgChars, MaxMsgLen)
\* no logger, a short one, one of exactly 15 characters, one above 15
LayoutLoggers == {<<>>, Rep("l", 1), Rep("l", 15), Rep("l", 16)}
LayoutWidthArgs == (1..MaxSmallWidth) \cup {24, 40}

InitLayout ==
    /\ display_init
    /\ filters.search = <<>>
    /\ args \in [line : {LogLine("backend", "INFO", lg, msg, <<>>) :
                            lg \in LayoutLoggers, msg \in LayoutMessages},
                 available_width : LayoutWidthArgs,
                 max_lines : 1..MaxRowsArg]
    /\ returned = Pending
    /\ subscriber_init
    /\ threads_init
    /\ monitor_init(FALSE)

calc_visual_lines_call ==
    /\ returned = Pending
    /\ returned' = <<_calc_visual_lines(args.line, args.available_width,
                                      args.max_lines)>>
    /\ UNCHANGED args

NextLayout ==
    calc_visual_lines_call /\ UNCHANGED not_fvars

SpecLayout == InitLayout /\ [][NextLayout]_vars

\* C6: for every record and every width >= 1 the row count is at least 1
\* and at most max_lines.
C6_RowsWithinBounds ==
    returned # Pending =>
        (returned[1] >= 1 /\ returned[1] <= args.max_lines)

\* a message with a newline and a wide character that takes more than one
\* row and fewer than the cap
C6_Witness ==
    /\ returned # Pending
    /\ returned[1] > 1 /\ returned[1] < args.max_lines
    /\ \E i \in 1..Len(args.line.message) : args.line.message[i] = NL
    /\ \E i \in 1..Len(args.line.message) : args.line.message[i] = "W"
    /\ args.available_width = 40

-----------------------------------------------------------------------------
(* RedisLogSubscriber: the subscriber thread and the consumer's drain *)

\* what arrives on the pub/sub connection, by what json.loads makes of it:
\* a JSONDecodeError, a value that is no dict (a list, a number, a string,
\* null), or a dict
NotJson == [json |-> FALSE]
NotObject == [json |-> TRUE, object |-> FALSE]
JsonObject(data, rw) == [json |-> TRUE, object |-> TRUE, data |-> data, raw |-> rw]

\* the payload that carries all five keys of a record
Published(line) ==
    JsonObject([component |-> line.source, timestamp |-> line.timestamp,
                level |-> line.level, logger |-> line.logger_name,
                message |-> line.message],
               line.raw)

\* an object without the keys timestamp, level, logger and message
PartialObjects == { JsonObject([component |-> "batch"], <<"p">>) }

Payloads ==
    {Published(line) : line \in LinePool} \cup PartialObjects
        \cup {NotJson, NotObject}

\* data.get(key, default)
data_get(data, key, default) == IF key \in DOMAIN data THEN data[key] ELSE default

\* lines 92-99: the LogLine made of a dict
log_line(payload) ==
    [source |-> data_get(payload.data, "component", "unknown"),
     timestamp |-> data_get(payload.data, "timestamp", ""),
     level |-> data_get(payload.data, "level", "INFO"),
     logger_name |-> data_get(payload.data, "logger", <<>>),
     message |-> data_get(payload.data, "message", <<>>),
     raw |-> payload.raw]

\* Queue.full()
queue_full(q) == Len(q) >= QueueMaxsize

\* removing the newest queued record instead of the oldest
queue_remove_newest(q) == SubSeq(q, 1, Len(q) - 1)

\* what Queue.get_nowait() leaves on a non-empty queue
queue_remove(q) == Tail(q)

\* start(): the thread is created and subscribes
start ==
    /\ ~sub_running
    /\ p_pc \in {"not_started", "stopped"}
    /\ sub_running' = TRUE
    /\ p_pc' = "listen"
    /\ UNCHANGED <<queue, p_line, c_pc, c_lines, pushed, taken>>

\* one message from listen(): lines 88-101, up to the LogLine.  A
\* JSONDecodeError is caught at line 109; the AttributeError of data.get on
\* a value that is no dict is caught only at line 112, outside the loop, so
\* the thread ends through lines 115-116.
on_message(payload) ==
    /\ p_pc = "listen"
    /\ IF ~sub_running
       THEN /\ p_pc' = "stopped"
            /\ UNCHANGED <<p_line, sub_running>>
       ELSE IF ~payload.json
            THEN UNCHANGED <<p_pc, p_line, sub_running>>
            ELSE IF ~payload.object
                 THEN /\ sub_running' = FALSE
                      /\ p_pc' = "stopped"
                      /\ UNCHANGED p_line
                 ELSE /\ p_line' = log_line(payload)
                      /\ p_pc' = "full_check"
                      /\ UNCHANGED sub_running
    /\ UNCHANGED <<queue, c_pc, c_lines, pushed, taken>>

\* line 103: if self.queue.full()
full_check ==
    /\ p_pc = "full_check"
    /\ p_pc' = IF queue_full(queue) THEN "drop" ELSE "put"
    /\ UNCHANGED <<queue, sub_running, p_line, c_pc, c_lines, pushed, taken>>

\* a drop that removes nothing
drop_nothing ==
    /\ p_pc = "drop"
    /\ p_pc' = "put"
    /\ UNCHANGED <<queue, sub_running, p_line, c_pc, c_lines, pushed, taken>>

\* lines 104-107: get_nowait(), Empty swallowed
drop_oldest ==
    /\ p_pc = "drop"
    /\ queue' = IF queue = <<>> THEN queue ELSE queue_remove(queue)
    /\ p_pc' = "put"
    /\ UNCHANGED <<sub_running, p_line, c_pc, c_lines, pushed, taken>>

\* line 108: put_nowait(log_line); queue.Full is caught by neither except
\* of the message, so it ends the loop through lines 112-116
put ==
    /\ p_pc = "put"
    /\ IF queue_full(queue)
       THEN /\ sub_running' = FALSE
            /\ p_pc' = "stopped"
            /\ UNCHANGED <<queue, pushed>>
       ELSE /\ queue' = Append(queue, p_line)
            /\ pushed' = Append(pushed, p_line)
            /\ p_pc' = "listen"
            /\ UNCHANGED sub_running
    /\ p_line' = NoLine
    /\ UNCHANGED <<c_pc, c_lines, taken>>

\* get_new_lines(): lines = []
get_new_lines_call ==
    /\ c_pc = "idle"
    /\ c_pc' = "get"
    /\ c_lines' = <<>>
    /\ UNCHANGED <<queue, sub_running, p_pc, p_line, pushed, taken>>

\* a loop that returns after the first record
get_new_lines_step_once ==
    /\ c_pc = "get"
    /\ IF queue = <<>> \/ c_lines # <<>>
       THEN /\ c_pc' = "idle"
            /\ UNCHANGED <<queue, c_lines, taken>>
       ELSE /\ c_lines' = Append(c_lines, Head(queue))
            /\ taken' = Append(taken, Head(queue))
            /\ queue' = queue_remove(queue)
            /\ UNCHANGED c_pc
    /\ UNCHANGED <<sub_running, p_pc, p_line, pushed>>

\* one turn of its loop: get_nowait(), or Empty and return
get_new_lines_step ==
    /\ c_pc = "get"
    /\ IF queue = <<>>
       THEN /\ c_pc' = "idle"
            /\ UNCHANGED <<queue, c_lines, taken>>
       ELSE /\ c_lines' = Append(c_lines, Head(queue))
            /\ taken' = Append(taken, Head(queue))
            /\ queue' = queue_remove(queue)
            /\ UNCHANGED c_pc
    /\ UNCHANGED <<sub_running, p_pc, p_line, pushed>>

NextQueue ==
    \/ start /\ UNCHANGED not_qvars
    \/ /\ Len(pushed) < MaxPush
       /\ \E payload \in Payloads : on_message(payload)
       /\ UNCHANGED not_qvars
    \/ full_check /\ UNCHANGED not_qvars
    \/ drop_oldest /\ UNCHANGED not_qvars
    \/ put /\ UNCHANGED not_qvars
    \/ get_new_lines_call /\ UNCHANGED not_qvars
    \/ get_new_lines_step /\ UNCHANGED not_qvars

SpecQueue == InitScroll /\ [][NextQueue]_vars

\* C2: as long as the consumer has taken nothing, between two messages the
\* queue holds the last QueueMaxsize records put on it, in order: after
\* capacity + k pushes exactly capacity records, the k-th through the last.
C2_QueueKeepsNewest ==
    (taken = <<>> /\ p_pc = "listen") =>
        /\ Len(queue) <= QueueMaxsize
        /\ queue = LastN(pushed, QueueMaxsize)

\* capacity + 2 records were pushed with no drain: the first two are gone
C2_Witness ==
    /\ taken = <<>> /\ p_pc = "listen" /\ c_pc = "idle"
    /\ Len(pushed) = QueueMaxsize + 2
    /\ Len(queue) = QueueMaxsize
    /\ queue[1] # pushed[1]

-----------------------------------------------------------------------------
(* LogDisplay shared by two threads: one reads the view, one mutates.
   Each step is what runs between two points where the other thread can
   run: a locked block, or the statements between two of them. *)

\* lines 172-176 (226-232): read the flag under the lock, decide to rebuild
view_check ==
    /\ r_pc = "idle"
    /\ r_pc' = IF cache_valid THEN "read" ELSE "snapshot"
    /\ UNCHANGED <<dvars, r_lines_snapshot, r_new_filtered, r_i, w_pc, w_line>>

\* lines 97-99: new_filtered = [], lines_snapshot = list(self.lines)
rebuild_snapshot ==
    /\ r_pc = "snapshot"
    /\ r_lines_snapshot' = lines
    /\ r_new_filtered' = <<>>
    /\ r_i' = 1
    /\ r_pc' = "filter"
    /\ UNCHANGED <<dvars, w_pc, w_line>>

\* lines 101-109: one turn of the loop, reading self.filters as they are now
rebuild_filter_line ==
    /\ r_pc = "filter"
    /\ IF r_i > Len(r_lines_snapshot)
       THEN /\ r_pc' = "store"
            /\ UNCHANGED <<r_new_filtered, r_i>>
       ELSE /\ r_new_filtered' =
                   IF passes_filters(r_lines_snapshot[r_i], filters)
                   THEN Append(r_new_filtered, r_lines_snapshot[r_i])
                   ELSE r_new_filtered
            /\ r_i' = r_i + 1
            /\ UNCHANGED r_pc
    /\ UNCHANGED <<dvars, r_lines_snapshot, w_pc, w_line>>

\* lines 113-115: under the lock, store the result and mark it valid
rebuild_store ==
    /\ r_pc = "store"
    /\ cached_filtered' = r_new_filtered
    /\ cache_valid' = TRUE
    /\ r_pc' = "read"
    /\ UNCHANGED <<lines, filters, paused, stats, scroll_offset,
                   cache_version, added>>
    /\ UNCHANGED <<r_lines_snapshot, r_new_filtered, r_i, w_pc, w_line>>

\* lines 179-180 (234-235): under the lock, copy the cache; the locals go
view_read ==
    /\ r_pc = "read"
    /\ r_pc' = "idle"
    /\ r_lines_snapshot' = <<>>
    /\ r_new_filtered' = <<>>
    /\ r_i' = 0
    /\ UNCHANGED <<dvars, w_pc, w_line>>

\* add_line, lines 79-83: the append, before the invalidation
add_line_append(line) ==
    /\ w_pc = "idle"
    /\ IF paused
       THEN UNCHANGED <<dvars, w_pc, w_line>>
       ELSE /\ lines' = deque_append(lines, line, MaxLinesCfg)
            /\ added' = Append(added, line)
            /\ w_line' = line
            /\ w_pc' = "add_invalidate"
            /\ UNCHANGED <<filters, paused, stats, scroll_offset,
                           cache_valid, cached_filtered, cache_version>>
    /\ UNCHANGED <<r_pc, r_lines_snapshot, r_new_filtered, r_i>>

\* set_level_filter, line 429: the assignment, before the invalidation
set_level_filter_assign(level) ==
    /\ w_pc = "idle"
    /\ filters' = [filters EXCEPT !.level = level]
    /\ w_pc' = "filter_invalidate"
    /\ UNCHANGED <<lines, paused, stats, scroll_offset, cache_valid,
                   cached_filtered, cache_version, added>>
    /\ UNCHANGED <<r_pc, r_lines_snapshot, r_new_filtered, r_i, w_line>>

\* set_source_filter, line 434
set_source_filter_assign(source) ==
    /\ w_pc = "idle"
    /\ filters' = [filters EXCEPT !.source = source]
    /\ w_pc' = "filter_invalidate"
    /\ UNCHANGED <<lines, paused, stats, scroll_offset, cache_valid,
                   cached_filtered, cache_version, added>>
    /\ UNCHANGED <<r_pc, r_lines_snapshot, r_new_filtered, r_i, w_line>>

\* the writer's call of _invalidate_cache, lines 84, 430, 435
writer_invalidate ==
    /\ w_pc \in {"add_invalidate", "filter_invalidate"}
    /\ _invalidate_cache
    /\ w_pc' = IF w_pc = "add_invalidate" THEN "add_stats" ELSE "idle"
    /\ UNCHANGED <<lines, filters, paused, stats, scroll_offset,
                   cached_filtered, added>>
    /\ UNCHANGED <<r_pc, r_lines_snapshot, r_new_filtered, r_i, w_line>>

\* add_line, lines 86-90
add_line_stats ==
    /\ w_pc = "add_stats"
    /\ stats' = stats_add(stats, w_line)
    /\ w_line' = NoLine
    /\ w_pc' = "idle"
    /\ UNCHANGED <<lines, filters, paused, scroll_offset, cache_valid,
                   cached_filtered, cache_version, added>>
    /\ UNCHANGED <<r_pc, r_lines_snapshot, r_new_filtered, r_i>>

\* clear, lines 418-425: one locked block
writer_clear ==
    /\ w_pc = "idle"
    /\ clear
    /\ UNCHANGED tvars

NextRace ==
    \/ view_check /\ UNCHANGED not_dtvars
    \/ rebuild_snapshot /\ UNCHANGED not_dtvars
    \/ rebuild_filter_line /\ UNCHANGED not_dtvars
    \/ rebuild_store /\ UNCHANGED not_dtvars
    \/ view_read /\ UNCHANGED not_dtvars
    \/ /\ cache_version < MaxRaceVersion
       /\ \E line \in LinePool : add_line_append(line)
       /\ UNCHANGED not_dtvars
    \/ /\ cache_version < MaxRaceVersion
       /\ \E level \in LevelKeys : set_level_filter_assign(level)
       /\ UNCHANGED not_dtvars
    \/ /\ cache_version < MaxRaceVersion
       /\ \E source \in SourceKeys : set_source_filter_assign(source)
       /\ UNCHANGED not_dtvars
    \/ writer_invalidate /\ UNCHANGED not_dtvars
    \/ add_line_stats /\ UNCHANGED not_dtvars
    \/ /\ cache_version < MaxRaceVersion
       /\ writer_clear
       /\ UNCHANGED not_dtvars

SpecRace == InitScroll /\ [][NextRace]_vars

\* C5: once the writer has finished its mutation (its invalidation has been
\* made), a cache marked valid holds the filter applied to the buffer and
\* filters as they now are, also when the rebuild that stored it took its
\* snapshot before that invalidation.
C5_InvalidationNotLost ==
    (w_pc = "idle" /\ cache_valid) =>
        cached_filtered = rebuilt_filtered(lines, filters)

-----------------------------------------------------------------------------
(* LogMonitor: the main thread's loop, with the subscriber thread beside it *)

\* the keys pressed while the monitor runs, and the second bytes of the
\* special keys: Up, Down, End, Home
Keys == {"q", "p", "c", "b", "a", "l", "x", "k"}

\* the terminal sizes the console reports while the monitor runs
ConsoleHeights == {10, 16}
ConsoleWidths == {44}
SpecialKeys == {"H", "P", "O", "G"}

\* _handle_special_key: scroll_lines, and the step of the Home key
scroll_lines == 6
HomeStep == 9999

\* run(), lines 446 and 449: the viewport the loop clamps for
loop_available_width(width) == Max(40, width - 4)
loop_content_height(height) == Max(1, height - 11)

\* a render at this offset, and the largest offset of the viewport it
\* selects for
Shown(by, offset, height, width) ==
    LET aw == logs_available_width(width)
        ch == logs_content_height(body_height(height))
    IN  [by |-> by,
         offset |-> offset,
         max_offset |-> Max(0, total_visual_lines(aw) - ch)]

RECURSIVE lines_after_newest_first(_, _)
\* the buffer after add_line of the drained lines, the last one first
lines_after_newest_first(buf, new) ==
    IF new = <<>>
    THEN buf
    ELSE lines_after_newest_first(deque_append(buf, new[Len(new)], MaxLinesCfg), SubSeq(new, 1, Len(new) - 1))

RECURSIVE lines_after(_, _)
\* the buffer after add_line of each drained line
lines_after(buf, new) ==
    IF new = <<>>
    THEN buf
    ELSE lines_after(deque_append(buf, Head(new), MaxLinesCfg), Tail(new))

RECURSIVE stats_after(_, _)
\* the stats after add_line of each drained line
stats_after(st, new) ==
    IF new = <<>>
    THEN st
    ELSE stats_after(stats_add(st, Head(new)), Tail(new))

\* _force_refresh, lines 107-113
_force_refresh(height, width) ==
    IF live
    THEN /\ render(height, width)
         /\ shown' = Shown("force", scroll_offset, height, width)
    ELSE /\ shown' = NoShown
         /\ UNCHANGED dvars

\* _reconnect, lines 115-165: the old subscriber is stopped; when Redis is
\* reachable a new one, with a new queue and thread, takes its place.  Its
\* refreshes all show the same display, so one stands for them.
_reconnect ==
    \E height \in ConsoleHeights, width \in ConsoleWidths, reachable \in BOOLEAN :
        /\ _force_refresh(height, width)
        /\ IF reachable
           THEN /\ queue' = <<>>
                /\ sub_running' = TRUE
                /\ p_pc' = "listen"
                /\ p_line' = NoLine
                /\ connection_error' = FALSE
           ELSE /\ sub_running' = FALSE
                /\ connection_error' = TRUE
                /\ UNCHANGED <<queue, p_pc, p_line>>
        /\ UNCHANGED <<c_pc, c_lines, pushed, taken>>

\* _cancel_all_batch_tasks, lines 311-382: every path refreshes once
_cancel_all_batch_tasks ==
    \E height \in ConsoleHeights, width \in ConsoleWidths :
        /\ _force_refresh(height, width)
        /\ UNCHANGED <<qvars, connection_error>>

\* _handle_special_key, lines 216-233
_handle_special_key(key) ==
    /\ CASE key = "H" -> scroll_up(scroll_lines)
         [] key = "P" -> scroll_down(scroll_lines)
         [] key = "O" -> scroll_to_bottom
         [] key = "G" -> scroll_up(HomeStep)
    /\ render_needed' = TRUE
    /\ shown' = NoShown
    /\ UNCHANGED <<qvars, connection_error>>

\* _handle_key, lines 235-287
_handle_key(key) ==
    CASE key \in {"q", "l"} ->
             /\ shown' = NoShown
             /\ UNCHANGED <<dvars, qvars, render_needed,
                            connection_error>>
      [] key = "x" -> _reconnect /\ render_needed' = TRUE
      [] key = "k" -> _cancel_all_batch_tasks /\ render_needed' = TRUE
      [] key \in {"p", "c", "1", "2", "3", "4", "5", "0",
                   "b", "w", "r", "a"} ->
             /\ CASE key = "p" -> toggle_pause
                  [] key = "c" -> clear
                  [] key = "1" -> set_level_filter("DEBUG")
                  [] key = "2" -> set_level_filter("INFO")
                  [] key = "3" -> set_level_filter("WARNING")
                  [] key = "4" -> set_level_filter("ERROR")
                  [] key = "5" -> set_level_filter("CRITICAL")
                  [] key = "0" -> set_level_filter(None)
                  [] key = "b" -> set_source_filter("backend")
                  [] key = "w" -> set_source_filter("batch")
                  [] key = "r" -> set_source_filter("ray")
                  [] key = "a" ->
                         /\ filters' = [filters EXCEPT !.source = None,
                                                       !.level = None]
                         /\ cache_valid' = FALSE
                         /\ cache_version' = cache_version + 2
                         /\ UNCHANGED <<lines, paused, stats, scroll_offset,
                                        cached_filtered, added>>
             /\ render_needed' = TRUE
             /\ shown' = NoShown
             /\ UNCHANGED <<qvars, connection_error>>
      [] OTHER ->
             /\ shown' = NoShown
             /\ UNCHANGED <<dvars, qvars, render_needed, connection_error>>

\* run(), lines 386-419: connect, start the subscriber, first render
run_start ==
    /\ m_pc = "init"
    /\ running' = TRUE
    /\ \E reachable \in BOOLEAN :
          IF reachable
          THEN /\ start
               /\ \E height \in ConsoleHeights, width \in ConsoleWidths :
                     /\ render(height, width)
                     /\ shown' = Shown("initial", scroll_offset, height, width)
               /\ live' = TRUE
               /\ m_pc' = "loop"
          ELSE /\ m_pc' = "done"
               /\ UNCHANGED <<dvars, qvars, live, shown>>
    /\ UNCHANGED <<render_needed, has_new_logs, connection_error, has_msvcrt, keys_read>>

\* a loop that never looks at the subscriber
loop_top_unchecked ==
    /\ m_pc = "loop"
    /\ IF running
       THEN /\ UNCHANGED connection_error
            /\ get_new_lines_call
            /\ m_pc' = "drain"
       ELSE /\ m_pc' = "finally"
            /\ UNCHANGED <<connection_error, qvars>>
    /\ shown' = NoShown
    /\ UNCHANGED <<dvars, running, render_needed, has_new_logs, live, has_msvcrt, keys_read>>

\* lines 420-428: the loop test, the subscriber check, the call of
\* get_new_lines
loop_top ==
    /\ m_pc = "loop"
    /\ IF running
       THEN /\ connection_error' = ~sub_running
            /\ get_new_lines_call
            /\ m_pc' = "drain"
       ELSE /\ m_pc' = "finally"
            /\ UNCHANGED <<connection_error, qvars>>
    /\ shown' = NoShown
    /\ UNCHANGED <<dvars, running, render_needed, has_new_logs, live, has_msvcrt, keys_read>>

\* get_new_lines' loop, run by the main thread
poll_get ==
    /\ m_pc = "drain"
    /\ get_new_lines_step
    /\ shown' = NoShown
    /\ UNCHANGED <<dvars, m_pc, running, render_needed, has_new_logs, live,
                   connection_error, has_msvcrt, keys_read>>

\* _poll_logs whose add_line drops the lines while the view is scrolled
_poll_logs_live_only ==
    /\ m_pc = "drain"
    /\ c_pc = "idle"
    /\ IF paused \/ c_lines = <<>> \/ scroll_offset > 0
       THEN UNCHANGED dvars
       ELSE /\ lines' = lines_after(lines, c_lines)
            /\ stats' = stats_after(stats, c_lines)
            /\ cache_valid' = FALSE
            /\ cache_version' = cache_version + Len(c_lines)
            /\ added' = added \o c_lines
            /\ UNCHANGED <<filters, paused, scroll_offset, cached_filtered>>
    /\ has_new_logs' = (c_lines # <<>>)
    /\ c_lines' = <<>>
    /\ m_pc' = "keys"
    /\ UNCHANGED <<queue, sub_running, p_pc, p_line, c_pc, pushed, taken>>
    /\ shown' = NoShown
    /\ UNCHANGED <<running, render_needed, live, connection_error,
                   has_msvcrt, keys_read>>

\* _poll_logs whose add_line does not look at paused
_poll_logs_unpaused ==
    /\ m_pc = "drain"
    /\ c_pc = "idle"
    /\ IF c_lines = <<>>
       THEN UNCHANGED dvars
       ELSE /\ lines' = lines_after(lines, c_lines)
            /\ stats' = stats_after(stats, c_lines)
            /\ cache_valid' = FALSE
            /\ cache_version' = cache_version + Len(c_lines)
            /\ added' = added \o c_lines
            /\ UNCHANGED <<filters, paused, scroll_offset, cached_filtered>>
    /\ has_new_logs' = (c_lines # <<>>)
    /\ c_lines' = <<>>
    /\ m_pc' = "keys"
    /\ UNCHANGED <<queue, sub_running, p_pc, p_line, c_pc, pushed, taken>>
    /\ shown' = NoShown
    /\ UNCHANGED <<running, render_needed, live, connection_error,
                   has_msvcrt, keys_read>>

\* _poll_logs, lines 171-174: add_line for each line get_new_lines returned
_poll_logs ==
    /\ m_pc = "drain"
    /\ c_pc = "idle"
    /\ IF paused \/ c_lines = <<>>
       THEN UNCHANGED dvars
       ELSE /\ lines' = lines_after(lines, c_lines)
            /\ stats' = stats_after(stats, c_lines)
            /\ cache_valid' = FALSE
            /\ cache_version' = cache_version + Len(c_lines)
            /\ added' = added \o c_lines
            /\ UNCHANGED <<filters, paused, scroll_offset, cached_filtered>>
    /\ has_new_logs' = (c_lines # <<>>)
    /\ c_lines' = <<>>
    /\ m_pc' = "keys"
    /\ UNCHANGED <<queue, sub_running, p_pc, p_line, c_pc, pushed, taken>>
    /\ shown' = NoShown
    /\ UNCHANGED <<running, render_needed, live, connection_error, has_msvcrt, keys_read>>

\* _check_keyboard, lines 181-214, with a key pending: with msvcrt the loop
\* goes on to the next key, without it one key is read; q ends run's loop
\* (lines 431-433)
check_keyboard_key(key) ==
    /\ m_pc = "keys"
    /\ key \in SpecialKeys => has_msvcrt
    /\ IF key \in SpecialKeys
       THEN _handle_special_key(key)
       ELSE _handle_key(key)
    /\ IF key = "q"
       THEN /\ running' = FALSE
            /\ m_pc' = "finally"
            /\ keys_read' = 0
       ELSE /\ m_pc' = IF has_msvcrt THEN "keys" ELSE "decide"
            /\ keys_read' = IF has_msvcrt THEN keys_read + 1 ELSE 0
            /\ UNCHANGED running
    /\ UNCHANGED <<has_new_logs, live, has_msvcrt>>

\* _check_keyboard with no key pending
check_keyboard_none ==
    /\ m_pc = "keys"
    /\ m_pc' = "decide"
    /\ keys_read' = 0
    /\ shown' = NoShown
    /\ UNCHANGED <<dvars, qvars, running, render_needed, has_new_logs, live,
                   connection_error, has_msvcrt>>

\* a render decision that does not look at the scroll offset
loop_render_on_arrival ==
    /\ m_pc = "decide"
    /\ IF render_needed \/ has_new_logs
       THEN \E height \in ConsoleHeights, width \in ConsoleWidths :
               LET clamped ==
                       clamped_offset(
                           scroll_offset,
                           total_visual_lines(loop_available_width(width)),
                           loop_content_height(height))
               IN  /\ _rebuild_if_stale
                   /\ scroll_offset' = clamped
                   /\ shown' = Shown("loop", clamped, height, width)
                   /\ render_needed' = FALSE
                   /\ UNCHANGED <<lines, filters, paused, stats,
                                  cache_version, added>>
       ELSE /\ shown' = NoShown
            /\ UNCHANGED <<dvars, render_needed>>
    /\ m_pc' = "loop"
    /\ UNCHANGED <<qvars, running, has_new_logs, live, connection_error, has_msvcrt, keys_read>>

\* lines 439-457: the render decision, clamp_scroll, render, sleep
loop_render ==
    /\ m_pc = "decide"
    /\ IF render_needed \/ (~(scroll_offset > 0) /\ has_new_logs)
       THEN \E height \in ConsoleHeights, width \in ConsoleWidths :
               LET clamped ==
                       clamped_offset(
                           scroll_offset,
                           total_visual_lines(loop_available_width(width)),
                           loop_content_height(height))
               IN  /\ _rebuild_if_stale
                   /\ scroll_offset' = clamped
                   /\ shown' = Shown("loop", clamped, height, width)
                   /\ render_needed' = FALSE
                   /\ UNCHANGED <<lines, filters, paused, stats,
                                  cache_version, added>>
       ELSE /\ shown' = NoShown
            /\ UNCHANGED <<dvars, render_needed>>
    /\ m_pc' = "loop"
    /\ UNCHANGED <<qvars, running, has_new_logs, live, connection_error, has_msvcrt, keys_read>>

\* what the feed carries while the monitor runs: the five-row record, and
\* a payload that is not JSON
FeedPayloads ==
    {Published(line) : line \in {l \in LinePool : l.source = "batch"}}
        \cup {NotJson}

\* the subscriber thread taking one message, lines 87-110, in one step (its
\* steps against the drain are those of SpecQueue)
subscriber_message(payload) ==
    /\ p_pc = "listen"
    /\ IF ~sub_running
       THEN /\ p_pc' = "stopped"
            /\ UNCHANGED <<queue, pushed, sub_running>>
       ELSE IF ~payload.json
            THEN UNCHANGED <<queue, pushed, sub_running, p_pc>>
            ELSE IF ~payload.object
                 THEN /\ sub_running' = FALSE
                      /\ p_pc' = "stopped"
                      /\ UNCHANGED <<queue, pushed>>
                 ELSE /\ queue' = Append(IF queue_full(queue)
                                         THEN queue_remove(queue)
                                         ELSE queue,
                                         log_line(payload))
                      /\ pushed' = Append(pushed, log_line(payload))
                      /\ UNCHANGED <<sub_running, p_pc>>
    /\ UNCHANGED <<p_line, c_pc, c_lines, taken>>
    /\ UNCHANGED <<dvars, mvars>>

\* the connection is lost: listen() raises, the exception is swallowed at
\* line 112 and line 116 ends the thread
listen_raises ==
    /\ p_pc = "listen"
    /\ sub_running
    /\ sub_running' = FALSE
    /\ p_pc' = "stopped"
    /\ UNCHANGED <<queue, p_line, c_pc, c_lines, pushed, taken>>
    /\ UNCHANGED <<dvars, mvars>>

\* lines 461-471: finally
run_finally ==
    /\ m_pc = "finally"
    /\ running' = FALSE
    /\ live' = FALSE
    /\ sub_running' = FALSE
    /\ m_pc' = "done"
    /\ UNCHANGED <<queue, p_pc, p_line, c_pc, c_lines, pushed, taken>>
    /\ shown' = NoShown
    /\ UNCHANGED <<dvars, render_needed, has_new_logs, connection_error, has_msvcrt, keys_read>>

InitMonitor ==
    /\ display_init
    /\ filters.search = <<>>
    /\ NoCall
    /\ subscriber_init
    /\ threads_init
    /\ \E msvcrt \in BOOLEAN : monitor_init(msvcrt)

NextMonitor ==
    \/ run_start /\ UNCHANGED not_mvars
    \/ loop_top /\ UNCHANGED not_mvars
    \/ poll_get /\ UNCHANGED not_mvars
    \/ _poll_logs /\ UNCHANGED not_mvars
    \/ /\ keys_read < MaxKeysPerTick
       /\ \E key \in Keys \cup SpecialKeys :
             /\ key \in {"c", "b", "a"} => cache_version < MaxKeyVersion
             /\ key \in {"H", "G"} => scroll_offset <= MaxKeyScroll
             /\ check_keyboard_key(key)
       /\ UNCHANGED not_mvars
    \/ check_keyboard_none /\ UNCHANGED not_mvars
    \/ loop_render /\ UNCHANGED not_mvars
    \/ run_finally /\ UNCHANGED not_mvars
    \/ /\ Len(pushed) < MaxFeed
       /\ \E payload \in FeedPayloads : subscriber_message(payload)
       /\ UNCHANGED not_mvars

SpecMonitor == InitMonitor /\ [][NextMonitor]_vars

\* C10: every render selects its window at an offset that is at most the
\* largest offset of the viewport it selects for, as it would be had
\* clamp_scroll just run for that buffer, filter and viewport: the loop's
\* render, the first render, and the forced refreshes of reconnect and
\* batch-cancel.
C10_EveryRenderIsClamped ==
    shown.by # "none" => shown.offset <= shown.max_offset

-----------------------------------------------------------------------------
(* Properties of the stats *)

RECURSIVE SumOfCounts(_)
\* the sum of the values of a dict of counters
SumOfCounts(d) ==
    IF DOMAIN d = {}
    THEN 0
    ELSE LET k == CHOOSE x \in DOMAIN d : TRUE
         IN  d[k] + SumOfCounts([x \in DOMAIN d \ {k} |-> d[x]])

RECURSIVE StatsTotal(_)
\* the sum of all counters of the stats
StatsTotal(st) ==
    IF DOMAIN st = {}
    THEN 0
    ELSE LET k == CHOOSE x \in DOMAIN st : TRUE
         IN  SumOfCounts(st[k]) + StatsTotal([x \in DOMAIN st \ {k} |-> st[x]])

\* how many of the records accepted since the last clear have this source
\* and, upper-cased, this level
AcceptedWith(src, lvl) ==
    Cardinality({i \in DOMAIN added :
                    added[i].source = src /\ Upper(added[i].level) = lvl})

\* C11: the stats count every record accepted since the last clear exactly
\* once, under its source and upper-cased level: each counter is the number
\* of such records, the counters sum to the number of accepted adds, and
\* that is at least the buffer length (eviction never decrements).
C11_StatsCountAcceptedAdds ==
    /\ StatsTotal(stats) = Len(added)
    /\ StatsTotal(stats) >= Len(lines)
    /\ \A src \in DOMAIN stats : \A lvl \in DOMAIN stats[src] :
           /\ stats[src][lvl] = AcceptedWith(src, lvl)
           /\ stats[src][lvl] >= 1
    /\ \A i \in DOMAIN added :
           /\ added[i].source \in DOMAIN stats
           /\ Upper(added[i].level) \in DOMAIN stats[added[i].source]

\* more adds than the buffer holds: an evicted record is still counted, and
\* one counter has counted twice
C11_Witness ==
    /\ Len(lines) = MaxLinesCfg
    /\ Len(added) = MaxLinesCfg + 1
    /\ StatsTotal(stats) = MaxLinesCfg + 1
    /\ \E src \in DOMAIN stats : \E lvl \in DOMAIN stats[src] :
           stats[src][lvl] >= 2

-----------------------------------------------------------------------------
(* Properties of the monitor's ticks *)

\* the main thread's step is the one that hands the drained lines to add_line
PollAdds == m_pc = "drain" /\ m_pc' = "keys"

\* the main thread's step is the one in which get_new_lines returns
DrainReturns == m_pc = "drain" /\ c_pc = "get" /\ c_pc' = "idle"

\* C12: while paused, handing the drained records to add_line changes
\* neither the buffer, the stats, the cache flag nor the cache version, and
\* the records are gone afterwards; the drain of every tick, paused or not,
\* returns only when the queue is empty, and the queue never holds more
\* than its capacity.
C12_PausedAddsNothingDrainGoesOn ==
    /\ [][(PollAdds /\ paused) =>
             /\ UNCHANGED <<lines, stats, cache_valid, cache_version, added>>
             /\ c_lines' = <<>>]_vars
    /\ [][DrainReturns => (queue = <<>> /\ queue' = <<>>)]_vars
    /\ [](Len(queue) <= QueueMaxsize)

\* paused, a tick has just drained records and add_line dropped them all;
\* more was pushed than the queue holds
C12_Witness ==
    /\ paused
    /\ m_pc = "keys"
    /\ has_new_logs
    /\ Len(taken) >= 2
    /\ Len(pushed) > QueueMaxsize
    /\ added = <<>>
    /\ lines = <<>>
    /\ stats = <<>>

\* C13: when not paused, the records a tick drained are appended to the
\* buffer (evicting from the front) and each counted once in the stats,
\* whatever the scroll offset is, and the scroll offset is left as it was
\* (paused or not).
C13_ScrolledAddsLikeLive ==
    /\ [][(PollAdds /\ ~paused) =>
             /\ lines' = LastN(lines \o c_lines, MaxLinesCfg)
             /\ added' = added \o c_lines
             /\ StatsTotal(stats') = StatsTotal(stats) + Len(c_lines)
             /\ \A i \in DOMAIN c_lines :
                    /\ c_lines[i].source \in DOMAIN stats'
                    /\ Upper(c_lines[i].level) \in DOMAIN stats'[c_lines[i].source]
             /\ (c_lines # <<>> => ~cache_valid')]_vars
    /\ [][PollAdds => scroll_offset' = scroll_offset]_vars

\* scrolled and not paused, a tick has just added the records it drained
C13_Witness ==
    /\ scroll_offset > 0
    /\ ~paused
    /\ m_pc = "keys"
    /\ keys_read = 0
    /\ has_new_logs
    /\ lines # <<>>
    /\ StatsTotal(stats) = Len(added)
    /\ ~cache_valid

-----------------------------------------------------------------------------
(* Properties of the frozen view *)

\* the offset the loop's clamp_scroll would store for a terminal of this size
LoopOffset(height, width) ==
    clamped_offset(scroll_offset,
                   total_visual_lines(loop_available_width(width)),
                   loop_content_height(height))

\* the window the loop would put on screen now: clamp_scroll, then render
LoopWindow(height, width) ==
    select_window(filtered_snapshot_now, LoopOffset(height, width),
                  logs_content_height(body_height(height)),
                  logs_available_width(width))

\* C14: a record that arrives while the view is frozen (the offset is above
\* 0 before and after, and nothing else changes) leaves the window a
\* re-render would show, on any terminal, the same as before the arrival.
C14_FrozenWindowKeepsRecords ==
    [][\A height \in TermHeights, width \in TermWidths :
          (/\ added' # added
           /\ LoopOffset(height, width) > 0
           /\ LoopOffset(height, width)' > 0)
          => LoopWindow(height, width)' = LoopWindow(height, width)]_vars


-----------------------------------------------------------------------------
(* Properties of malformed payloads *)

\* C15: a payload that parses but lacks one of the keys component,
\* timestamp, level, logger, message is dropped: the record data.get's
\* defaults would make of it is never put on the queue.
C15_PartialPayloadIsDropped ==
    \A payload \in PartialObjects :
        /\ \A i \in DOMAIN queue : queue[i] # log_line(payload)
        /\ \A i \in DOMAIN pushed : pushed[i] # log_line(payload)

\* C16: no message is fatal to the producer: a subscriber thread that is
\* running and waiting for a message is still running after any step, so
\* that the messages after it are still taken.
C16_NoMessageStopsTheProducer ==
    [][(p_pc = "listen" /\ sub_running) => (sub_running' /\ p_pc' # "stopped")]_vars


-----------------------------------------------------------------------------
(* Properties of the push against the drain *)

\* a push leaves line 108
PutReturns == p_pc = "put" /\ p_pc' # "put"

\* C17: however the steps of one push (full check, drop of the oldest,
\* put_nowait) interleave with the drain's, put_nowait finds room and the
\* thread goes on to the next message, neither thread has a step that waits
\* for the other, and the queue never holds more than its capacity.
C17_PushAndDrainNeverWait ==
    /\ [][PutReturns =>
            /\ ~queue_full(queue)
            /\ queue' = Append(queue, p_line)
            /\ sub_running' = sub_running
            /\ p_pc' = "listen"]_vars
    /\ [](p_pc = "full_check" => ENABLED full_check)
    /\ [](p_pc = "drop" => ENABLED drop_oldest)
    /\ [](p_pc = "put" => ENABLED put)
    /\ [](c_pc = "get" => ENABLED get_new_lines_step)
    /\ [](Len(queue) <= QueueMaxsize)

\* the consumer took the first record between the producer's full check and
\* its drop, which then removed the second: the put found room for two
C17_Witness ==
    /\ Len(pushed) = QueueMaxsize + 1
    /\ pushed[1] # pushed[2]
    /\ taken = <<pushed[1]>>
    /\ Len(queue) = QueueMaxsize - 1
    /\ queue[Len(queue)] = pushed[Len(pushed)]
    /\ \A i \in DOMAIN queue : queue[i] = pushed[i + 2]
    /\ c_pc = "get"
    /\ p_pc = "listen"


-----------------------------------------------------------------------------
(* The monitor's loop beside the steps of the subscriber thread *)

\* what the feed carries here: two records that differ, and a payload that
\* is not JSON
IngestPayloads ==
    {Published(line) : line \in {l \in LinePool : l.level # "INFO"}}
        \cup {NotJson}

IngestKeys == {"p"}

InitIngest ==
    /\ display_init
    /\ filters.search = <<>>
    /\ NoCall
    /\ subscriber_init
    /\ threads_init
    /\ monitor_init(FALSE)

NextIngest ==
    \/ run_start /\ UNCHANGED not_mvars
    \/ loop_top /\ UNCHANGED not_mvars
    \/ poll_get /\ UNCHANGED not_mvars
    \/ _poll_logs /\ UNCHANGED not_mvars
    \/ /\ \E key \in IngestKeys : check_keyboard_key(key)
       /\ UNCHANGED not_mvars
    \/ check_keyboard_none /\ UNCHANGED not_mvars
    \/ loop_render /\ UNCHANGED not_mvars
    \/ /\ Len(pushed) < MaxPush
       /\ \E payload \in IngestPayloads : on_message(payload)
       /\ UNCHANGED not_qvars
    \/ full_check /\ UNCHANGED not_qvars
    \/ drop_oldest /\ UNCHANGED not_qvars
    \/ put /\ UNCHANGED not_qvars

SpecIngest == InitIngest /\ [][NextIngest]_vars

RECURSIVE IsSubsequence(_, _)
\* s is t with some of its elements left out
IsSubsequence(s, t) ==
    IF s = <<>>
    THEN TRUE
    ELSE IF t = <<>>
         THEN FALSE
         ELSE IF Head(s) = Head(t)
              THEN IsSubsequence(Tail(s), Tail(t))
              ELSE IsSubsequence(s, Tail(t))

\* C18: with one producer the buffer is an order-preserving subsequence of
\* the records pushed: the drain takes records in the order of the pushes,
\* the buffer receives them in the order of the drain, and neither the drop
\* at a full queue, nor the eviction at a full buffer, nor a drain that runs
\* beside a push repeats a record or swaps two.
C18_BufferFollowsPushOrder ==
    /\ IsSubsequence(taken, pushed)
    /\ IsSubsequence(added, taken)
    /\ IsSubsequence(lines, added)
    /\ IsSubsequence(lines, pushed)
    /\ IsSubsequence(taken \o queue, pushed)
    /\ (m_pc = "drain" /\ ~paused) => IsSubsequence(added \o c_lines, taken)

\* a record was dropped at the full queue, another evicted from the full
\* buffer, and the buffer holds two records that differ
C18_Witness ==
    /\ Len(pushed) > Len(taken) + Len(queue)
    /\ Len(added) > Len(lines)
    /\ Len(lines) >= 2
    /\ lines[1] # lines[2]
    /\ m_pc = "keys"


-----------------------------------------------------------------------------
(* Properties of quit and of the connection flag *)

\* _check_keyboard returns False: the key read was q
QuitRead == m_pc = "keys" /\ running /\ ~running'

\* C19: the tick in which quit is read is finished before the loop stops:
\* with records drained in this tick and the view at the bottom, the step
\* that reads q goes on to the render decision of lines 439-454.
C19_QuitTickIsFinished ==
    [][(QuitRead /\ has_new_logs /\ ~paused /\ ~(scroll_offset > 0)) => m_pc' = "decide"]_vars


\* the monitor's loop beside a subscriber thread that can end: the feed
\* also carries a payload that is JSON but no dict, and the connection can
\* be lost
ConnectionPayloads == FeedPayloads \cup {NotObject}
ConnectionKeys == {"q", "p", "x", "k"}

NextConnection ==
    \/ run_start /\ UNCHANGED not_mvars
    \/ loop_top /\ UNCHANGED not_mvars
    \/ poll_get /\ UNCHANGED not_mvars
    \/ _poll_logs /\ UNCHANGED not_mvars
    \/ /\ keys_read < MaxKeysPerTick
       /\ \E key \in ConnectionKeys : check_keyboard_key(key)
       /\ UNCHANGED not_mvars
    \/ check_keyboard_none /\ UNCHANGED not_mvars
    \/ loop_render /\ UNCHANGED not_mvars
    \/ run_finally /\ UNCHANGED not_mvars
    \/ /\ Len(pushed) < MaxFeed
       /\ \E payload \in ConnectionPayloads : subscriber_message(payload)
       /\ UNCHANGED not_mvars
    \/ listen_raises /\ UNCHANGED not_mvars

SpecConnection == InitMonitor /\ [][NextConnection]_vars

\* the loop's check of the subscriber, lines 422-425
LoopTop == m_pc = "loop" /\ m_pc' = "drain"

\* the loop renders, lines 443-454
LoopRenders == m_pc = "decide" /\ shown'.by = "loop"

\* the subscriber thread ends on its own
ProducerStops == p_pc = "listen" /\ sub_running /\ p_pc' = "stopped"

\* C20 as stated: at every render of the loop the flag reads disconnected
\* exactly when the subscriber is not running.
C20_FlagIsExactAtRender ==
    [][LoopRenders => (connection_error <=> ~sub_running)]_vars

\* C20: when the producer stops, nothing but its running flag changes; the
\* connection flag is set from the subscriber at the top of every tick and
\* by a reconnect, and by nothing else, so it reads disconnected from the
\* next tick on and a flag that reads disconnected at a render is never
\* wrong; the loop goes on ticking and the reconnect key is still taken.
C20_FlagFollowsByNextTick ==
    /\ [][ProducerStops => UNCHANGED <<dvars, mvars, queue>>]_vars
    /\ [][LoopTop => (connection_error' <=> ~sub_running)]_vars
    /\ [][(connection_error' # connection_error) =>
            \/ LoopTop
            \/ m_pc = "keys" /\ (connection_error' <=> ~sub_running')]_vars
    /\ [][LoopRenders => (connection_error => ~sub_running)]_vars
    /\ []((~sub_running /\ running /\ m_pc = "loop") => ENABLED loop_top)
    /\ []((~sub_running /\ m_pc = "keys") => ENABLED check_keyboard_key("x"))

\* the thread has ended, the next tick has read the flag and rendered it,
\* the buffer still holds what it held, and the loop is at its next tick
C20_Witness ==
    /\ p_pc = "stopped"
    /\ ~sub_running
    /\ connection_error
    /\ shown.by = "loop"
    /\ lines # <<>>
    /\ running
    /\ m_pc = "loop"


-----------------------------------------------------------------------------
(* LogDisplay.render_logs: what it emits for one entry *)

\* len() of the strings the model keeps whole
StrLen(s) ==
    CASE s = "" -> 0
      [] s = "batch" -> 5
      [] s = "backend" -> 7
      [] s = "unknown" -> 7
      [] s = "12:00:00,000" -> 12

Ellipsis == <<".", ".", ".">>

\* '\n'.join(parts)
RECURSIVE join_nl(_)
join_nl(parts) ==
    IF Len(parts) = 0
    THEN <<>>
    ELSE IF Len(parts) = 1
         THEN parts[1]
         ELSE parts[1] \o <<NL>> \o join_nl(Tail(parts))

\* lines 343-358: the cells of the source tag, the time, the level marker
\* and the logger name, each with the blank or ": " after it
render_prefix_len(line) ==
    (1 + Min(3, StrLen(line.source)) + 2)
        + (IF TruthyStr(line.timestamp) THEN StrLen(line.timestamp) + 1 ELSE 0)
        + (3 + 1)
        + (IF TruthySeq(line.logger_name)
           THEN Min(Len(line.logger_name), 15) + 2
           ELSE 0)

\* lines 360-376: the message as appended to the content
render_msg(line, available_width) ==
    LET stripped == rstrip_nl(line.message)
        max_visual_width == available_width * 5
        msg1 == IF Len(stripped) > max_visual_width
                THEN SubSeq(stripped, 1, max_visual_width)
                ELSE stripped
        msg2 == trim_cells(msg1, max_visual_width)
        msg3 == IF Len(msg2) < Len(stripped) THEN msg2 \o Ellipsis ELSE msg2
        msg_lines == split_nl(msg3)
    IN  IF Len(msg_lines) > 5
        THEN join_nl(SubSeq(msg_lines, 1, 5)) \o Ellipsis
        ELSE msg3

\* an entry as the layout pass counts it and as the render pass emits it
render_entry(line, available_width) ==
    [rows |-> _calc_visual_lines(line, available_width, DefaultMaxRows),
     prefix_len |-> render_prefix_len(line),
     msg |-> render_msg(line, available_width)]

\* the messages rendered: some one-character lines, then one long line of
\* narrow or of wide characters
MaxRenderBreaks == 6
MaxRenderSpan == 30
RenderWidths == {40, 100}
RenderLoggers == {<<>>, Rep("l", 16)}

RECURSIVE ShortLines(_)
ShortLines(k) == IF k = 0 THEN <<>> ELSE <<"a", NL>> \o ShortLines(k - 1)

RenderLens(w) == {0, 1} \cup ((5 * w - MaxRenderSpan)..(5 * w + 2))

RenderArgs ==
    UNION { { [line |-> LogLine("backend", "INFO", lg, ShortLines(k) \o Rep(c, n), <<>>),
               available_width |-> w] :
                 lg \in RenderLoggers, k \in 0..MaxRenderBreaks,
                 n \in RenderLens(w),
                 c \in (IF w = 40 THEN {"a", "W"} ELSE {"a"}) } :
            w \in RenderWidths }

InitRender ==
    /\ display_init
    /\ filters.search = <<>>
    /\ args \in RenderArgs
    /\ returned = Pending
    /\ subscriber_init
    /\ threads_init
    /\ monitor_init(FALSE)

render_entry_call ==
    /\ returned = Pending
    /\ returned' = <<render_entry(args.line, args.available_width)>>
    /\ UNCHANGED args

NextRender ==
    render_entry_call /\ UNCHANGED not_fvars

SpecRender == InitRender /\ [][NextRender]_vars

\* rows of a text at a width: each line of it at least one row, and one
\* more for every full width of cells
RECURSIVE RowsOfParts(_, _, _)
RowsOfParts(parts, first_extra, w) ==
    IF parts = <<>>
    THEN 0
    ELSE part_rows(first_extra + cell_len(parts[1]), w) + RowsOfParts(Tail(parts), 0, w)

RenderedRows(entry, w) == RowsOfParts(split_nl(entry.msg), entry.prefix_len, w)

\* C21: the rows the rendered entry takes at the viewport width (prefix and
\* message as emitted, ellipsis included) are the rows the layout pass
\* allocated for it, and never more.
C21_RenderedRowsAreAllocatedRows ==
    returned # Pending =>
        RenderedRows(returned[1], args.available_width) = returned[1].rows

\* the content of the record needs more rows than the cap
NeedsMoreThanCap(line, w) ==
    RowsOfParts(split_nl(rstrip_nl(line.message)), prefix_len(line), w) > DefaultMaxRows

EndsWithEllipsis(msg) ==
    Len(msg) >= 3 /\ SubSeq(msg, Len(msg) - 2, Len(msg)) = Ellipsis

\* C22: whenever the content of a record needs more rows than the cap, so
\* that the layout returns the cap, the message the render pass emits ends
\* with "...".
C22_CappedEntryEndsWithMarker ==
    (returned # Pending /\ NeedsMoreThanCap(args.line, args.available_width)) =>
        (returned[1].rows = DefaultMaxRows /\ EndsWithEllipsis(returned[1].msg))


-----------------------------------------------------------------------------
(* Properties of clear beside a rebuild *)

\* C23: clear is atomic with respect to a rebuild in flight: once both have
\* finished, a cache marked valid holds no record the clear removed; with
\* the buffer empty since the clear, a valid cache is empty.
C23_ClearedRecordsLeaveValidCache ==
    (r_pc = "idle" /\ w_pc = "idle" /\ cache_valid /\ lines = <<>>) =>
        cached_filtered = <<>>


-----------------------------------------------------------------------------
(* Properties of the window selection *)

\* the rows of entries a..b of a view
RowsBetween(counts, a, b) == SumSeq(SubSeq(counts, a, b))

\* win is the longest run of whole entries of view that ends at entry e and
\* takes at most h rows
IsMaximalRunEndingAt(win, view, counts, e, h) ==
    \E first \in 1..(e + 1) :
        /\ win = SubSeq(view, first, e)
        /\ RowsBetween(counts, first, e) <= h
        /\ first = 1 \/ RowsBetween(counts, first - 1, e) > h

OffsetArgs == 1..(MaxScroll + 6)

\* the first entry, walking back from the newest, at which the rows reach
\* offset; the last entry if they never do
FirstReach(counts, offset) ==
    LET reached == {i \in DOMAIN counts : RowsBetween(counts, i, Len(counts)) >= offset}
    IN  IF reached = {}
        THEN Len(counts)
        ELSE CHOOSE i \in reached : \A j \in reached : j <= i

\* C25 as stated: for offset > 0 the end index is that entry, and so it is
\* non-increasing in offset.
C25_EndIndexNeverGrowsWithOffset ==
    \A w \in ViewWidths :
        LET counts == visual_counts_of(filtered_snapshot_now, w)
        IN  counts # <<>> =>
                \A o1 \in OffsetArgs, o2 \in OffsetArgs :
                    o1 <= o2 => end_entry_idx(counts, o2) <= end_entry_idx(counts, o1)

\* C25: for offset > 0 the end index is the largest index i such that the
\* rows of entries i..last are >= offset, and the last entry when the rows
\* of the whole view are below offset; over the offsets up to the rows of
\* the view it is non-increasing in offset.
C25_EndIndexIsFirstReach ==
    \A w \in ViewWidths :
        LET counts == visual_counts_of(filtered_snapshot_now, w)
            total == SumSeq(counts)
        IN  counts # <<>> =>
                /\ \A o \in OffsetArgs :
                       /\ end_entry_idx(counts, o) = FirstReach(counts, o)
                       /\ o > total => end_entry_idx(counts, o) = Len(counts)
                /\ \A o1 \in OffsetArgs, o2 \in OffsetArgs :
                       (o1 <= o2 /\ o2 <= total) =>
                           end_entry_idx(counts, o2) <= end_entry_idx(counts, o1)

\* the view is scrolled back to an entry that is not the newest, and for a
\* larger offset, above the rows of the view, the end index is the newest
\* entry again
C25_Witness ==
    /\ cache_valid
    /\ Len(cached_filtered) >= 2
    /\ scroll_offset > 0
    /\ \E w \in ViewWidths :
           LET counts == visual_counts_of(cached_filtered, w)
           IN  /\ scroll_offset <= SumSeq(counts)
               /\ end_entry_idx(counts, scroll_offset) < Len(counts)
               /\ \E o \in OffsetArgs :
                      /\ o > SumSeq(counts)
                      /\ end_entry_idx(counts, o) = Len(counts)


-----------------------------------------------------------------------------
(* Properties of the jump to the oldest entry *)

\* the offset after Home (scroll_up(9999)) and the clamp for a viewport
HomeOffset(h, w) ==
    clamped_offset(scroll_offset + HomeStep, total_visual_lines(w), h)

\* the window selected at that offset
HomeWindow(h, w) == select_window(filtered_snapshot_now, HomeOffset(h, w), h, w)

\* C26: after Home, the clamp and the selection, the window holds the
\* oldest record of the view whenever that record alone fits the viewport.
C26_HomeShowsOldest ==
    \A h \in ViewHeights, w \in ViewWidths :
        LET view == filtered_snapshot_now
        IN  (view # <<>> /\ rows_for(view[1], w) <= h) =>
                (HomeWindow(h, w) # <<>> /\ HomeWindow(h, w)[1] = view[1])


\* Home and the clamp as a function of the numbers they work on: the
\* offset before, the capacity --max-lines of the buffer, the rows of each
\* record of a full buffer, and the height of the viewport
MaxHomeStart == 6
HomeCapacities == {MaxLinesCfg, 1000, 2000, 3000}
HomeViewports == {1, 5, 39}

InitHome ==
    /\ display_init
    /\ filters.search = <<>>
    /\ args \in [offset : 0..MaxHomeStart,
                 max_lines : HomeCapacities,
                 rows_each : 1..DefaultMaxRows,
                 visible_lines : HomeViewports]
    /\ returned = Pending
    /\ subscriber_init
    /\ threads_init
    /\ monitor_init(FALSE)

\* the rows of a full buffer
home_total_visual == args.max_lines * args.rows_each

\* scroll_up(9999) and the next clamp_scroll
home_then_clamp ==
    /\ returned = Pending
    /\ returned' = <<clamped_offset(args.offset + HomeStep, home_total_visual,
                                   args.visible_lines)>>
    /\ UNCHANGED args

NextHome ==
    home_then_clamp /\ UNCHANGED not_fvars

SpecHome == InitHome /\ [][NextHome]_vars

\* C27: after Home and the clamp the offset is the largest offset of the
\* view, max(0, total rows - viewport height), for every offset before and
\* every capacity of the buffer.
C27_HomeReachesMaxOffset ==
    returned # Pending =>
        returned[1] = Max(0, home_total_visual - args.visible_lines)


-----------------------------------------------------------------------------
(* Properties of the filter setters *)

\* what a setter leaves alone, and what it does to the cache flags
SetterFrame ==
    /\ ~cache_valid'
    /\ cache_version' = cache_version + 1
    /\ UNCHANGED <<lines, stats, paused, scroll_offset>>

\* C28: set_level_filter and set_source_filter replace their own filter
\* field only, mark the cache stale (flag false, version one higher) and
\* leave buffer, stats, the other filter fields, paused and the scroll
\* offset as they were.
C28_SettersTouchOwnFieldOnly ==
    /\ [][\A level \in LevelKeys :
              set_level_filter(level) =>
                  /\ filters'.level = level
                  /\ filters'.source = filters.source
                  /\ filters'.search = filters.search
                  /\ SetterFrame]_vars
    /\ [][\A source \in SourceKeys :
              set_source_filter(source) =>
                  /\ filters'.source = source
                  /\ filters'.level = filters.level
                  /\ filters'.search = filters.search
                  /\ SetterFrame]_vars

\* both setters were called once, on a paused display with a search text, a
\* record and its stats, and a cache that had been rebuilt in between is
\* stale again
C28_Witness ==
    /\ filters.level # None
    /\ filters.source # None
    /\ filters.search # <<>>
    /\ paused
    /\ lines # <<>>
    /\ Len(lines) = Len(added)
    /\ StatsTotal(stats) = Len(added)
    /\ cache_version = Len(added) + 2
    /\ cached_filtered # <<>>
    /\ ~cache_valid


-----------------------------------------------------------------------------
(* Properties of the render decision *)

\* lines 439-440: should_render
should_render == render_needed \/ (~(scroll_offset > 0) /\ has_new_logs)

\* the tick takes its render decision, lines 439-457
DecideStep == m_pc = "decide" /\ m_pc' = "loop"

\* the key phase of a tick ends
KeysEnd == m_pc = "keys" /\ m_pc' # "keys"

\* the keys that scroll, filter, pause, clear or reconnect
CommandKeys == (Keys \cup SpecialKeys) \ {"q", "l", "k"}

-----------------------------------------------------------------------------
(* LogMonitor._reconnect, step by step *)

\* where the main thread sleeps inside _reconnect: after stop (line 125),
\* after start (line 151), after the "Reconnected!" refresh (line 159)
ReconnectPositions == {"x_stopped", "x_started", "x_shown"}

\* _reconnect returns to _handle_key, which sets the flag (line 282) and
\* returns to _check_keyboard
reconnect_return ==
    /\ render_needed' = TRUE
    /\ m_pc' = IF has_msvcrt THEN "keys" ELSE "decide"
    /\ keys_read' = IF has_msvcrt THEN keys_read + 1 ELSE 0

\* the key x is read; lines 117-125: the "Reconnecting..." refresh, stop()
reconnect_begin ==
    /\ m_pc = "keys"
    /\ \E height \in ConsoleHeights, width \in ConsoleWidths :
          _force_refresh(height, width)
    /\ sub_running' = FALSE
    /\ m_pc' = "x_stopped"
    /\ UNCHANGED <<queue, p_pc, p_line, c_pc, c_lines, pushed, taken>>
    /\ UNCHANGED <<running, render_needed, has_new_logs, live,
                   connection_error, has_msvcrt, keys_read>>

\* lines 127-150: Redis is probed (and the port-forward restarted); a new
\* subscriber is set up and started, or the attempt fails
reconnect_probe ==
    /\ m_pc = "x_stopped"
    /\ \E reachable \in BOOLEAN :
          IF reachable
          THEN /\ queue' = <<>>
               /\ sub_running' = TRUE
               /\ p_pc' = "listen"
               /\ p_line' = NoLine
               /\ m_pc' = "x_started"
               /\ UNCHANGED <<connection_error, render_needed, keys_read>>
          ELSE /\ connection_error' = TRUE
               /\ reconnect_return
               /\ UNCHANGED <<queue, sub_running, p_pc, p_line>>
    /\ shown' = NoShown
    /\ UNCHANGED <<c_pc, c_lines, pushed, taken>>
    /\ UNCHANGED <<dvars, running, has_new_logs, live, has_msvcrt>>

\* lines 153-156: the flag is cleared, the "Reconnected!" refresh
reconnect_success ==
    /\ m_pc = "x_started"
    /\ connection_error' = FALSE
    /\ \E height \in ConsoleHeights, width \in ConsoleWidths :
          _force_refresh(height, width)
    /\ m_pc' = "x_shown"
    /\ UNCHANGED <<qvars, running, render_needed, has_new_logs, live,
                   has_msvcrt, keys_read>>

\* lines 159-160: the sleep is over, the message is cleared
reconnect_end ==
    /\ m_pc = "x_shown"
    /\ reconnect_return
    /\ shown' = NoShown
    /\ UNCHANGED <<dvars, qvars, running, has_new_logs, live,
                   connection_error, has_msvcrt>>

\* the keys read beside x
ReconnectKeys == {"q", "p"}

NextReconnect ==
    \/ run_start /\ UNCHANGED not_mvars
    \/ loop_top /\ UNCHANGED not_mvars
    \/ poll_get /\ UNCHANGED not_mvars
    \/ _poll_logs /\ UNCHANGED not_mvars
    \/ /\ keys_read < MaxKeysPerTick
       /\ \E key \in ReconnectKeys : check_keyboard_key(key)
       /\ UNCHANGED not_mvars
    \/ /\ keys_read < MaxKeysPerTick
       /\ reconnect_begin
       /\ UNCHANGED not_mvars
    \/ reconnect_probe /\ UNCHANGED not_mvars
    \/ reconnect_success /\ UNCHANGED not_mvars
    \/ reconnect_end /\ UNCHANGED not_mvars
    \/ check_keyboard_none /\ UNCHANGED not_mvars
    \/ loop_render /\ UNCHANGED not_mvars
    \/ run_finally /\ UNCHANGED not_mvars
    \/ /\ Len(pushed) < MaxFeed
       /\ \E payload \in FeedPayloads : subscriber_message(payload)
       /\ UNCHANGED not_mvars

SpecReconnect == InitMonitor /\ [][NextReconnect]_vars

\* a step of the loop that drains the channel or reads input
LoopDrainsOrReads ==
    \/ loop_top
    \/ poll_get
    \/ _poll_logs
    \/ check_keyboard_none
    \/ \E key \in ReconnectKeys : check_keyboard_key(key)

\* C30: a reconnect attempt does not stall the loop: while one is in
\* progress the loop keeps ticking, that is, a step that drains the
\* channel or reads input can be taken.
C30_LoopTicksDuringReconnect ==
    m_pc \in ReconnectPositions => ENABLED LoopDrainsOrReads


-----------------------------------------------------------------------------
(* RedisLogSubscriber.get_new_lines called beside the running producer *)

\* records the producer has removed from the queue at line 105
Dropped == Len(pushed) - Len(taken) - Len(queue)

\* the records the feed carries while a drain is watched
DrainPayloads ==
    {Published(line) : line \in {l \in LinePool : l.source = "backend"}}

\* get_new_lines is called: what is queued, pushed and dropped at the call
get_new_lines_enter ==
    /\ get_new_lines_call
    /\ args' = [queued |-> queue, pushed |-> Len(pushed), dropped |-> Dropped]
    /\ returned' = Pending
    /\ UNCHANGED <<dvars, tvars, mvars>>

\* one turn of its loop; line 127 returns the list
get_new_lines_turn ==
    /\ get_new_lines_step
    /\ returned' = IF queue = <<>> THEN <<c_lines>> ELSE returned
    /\ UNCHANGED <<args, dvars, tvars, mvars>>

NextDrain ==
    \/ start /\ UNCHANGED not_qvars
    \/ /\ Len(pushed) < MaxPush
       /\ \E payload \in DrainPayloads : on_message(payload)
       /\ UNCHANGED not_qvars
    \/ full_check /\ UNCHANGED not_qvars
    \/ drop_oldest /\ UNCHANGED not_qvars
    \/ put /\ UNCHANGED not_qvars
    \/ get_new_lines_enter
    \/ get_new_lines_turn

\* the main thread keeps running while it is inside get_new_lines
SpecDrain == InitScroll /\ [][NextDrain]_vars /\ WF_vars(get_new_lines_turn)

\* s is the beginning of t
IsPrefix(s, t) == Len(s) <= Len(t) /\ SubSeq(t, 1, Len(s)) = s

-----------------------------------------------------------------------------
(* Properties of a render on a degenerate terminal *)

\* terminal sizes the console can report, 0 and the smallest ones included
DegenerateSizes == {0, 1, 2, 3, 4, 5, 8, 11, 12, 13, 44}

\* self.console.height or 30, self.console.width or 120
console_or(reported, default) == IF reported = 0 THEN default ELSE reported

\* render_logs, lines 328-330: what the panel holds
render_logs_state(height, width) ==
    IF rendered_lines(height, width) = <<>> THEN "no_logs" ELSE "entries"

\* C32: for every terminal height and width, 0 and the smallest included,
\* the loop's clamp and render_logs' window selection get a viewport width
\* of at least 1 and a viewport height of at least 1, the width the layout
\* divides by is at least 1, and with an empty filtered view the window is
\* empty and the panel is the no-logs one.
C32_DegenerateRenderIsSafe ==
    /\ \A h \in DegenerateSizes, w \in DegenerateSizes :
           LET height == console_or(h, 30)
               width == console_or(w, 120)
           IN  /\ loop_available_width(width) >= 1
               /\ loop_content_height(height) >= 1
               /\ logs_available_width(width) >= 1
               /\ logs_content_height(body_height(height)) >= 1
               /\ logs_available_width(w) >= 1
               /\ logs_content_height(body_height(h)) >= 1
    /\ filtered_snapshot_now = <<>> =>
           \A h \in DegenerateSizes, w \in DegenerateSizes :
               LET height == console_or(h, 30)
                   width == console_or(w, 120)
               IN  /\ rendered_lines(height, width) = <<>>
                   /\ render_logs_state(height, width) = "no_logs"
                   /\ total_visual_lines(loop_available_width(width)) = 0

\* the buffer holds records, the filter lets none through, and a view read
\* has rebuilt the cache
C32_Witness ==
    /\ lines # <<>>
    /\ filtered_snapshot_now = <<>>
    /\ cache_valid
    /\ cached_filtered = <<>>
    /\ filters.source # None


-----------------------------------------------------------------------------
(* Properties of the viewport the loop clamps for *)

\* C35: for every terminal height and width, at a render of the loop the
\* viewport height and width passed to clamp_scroll equal the content
\* height and available width render_logs passes to the window selection.
C35_ClampViewportIsRenderViewport ==
    (m_pc = "decide" /\ should_render) =>
        \A height \in ConsoleHeights, width \in ConsoleWidths :
            /\ loop_content_height(height) = logs_content_height(body_height(height))
            /\ loop_available_width(width) = logs_available_width(width)


-----------------------------------------------------------------------------
(* Properties of the drop at a full queue *)

\* the producer's get_nowait of line 105 removes a record
DropRemoves == drop_oldest /\ queue' # queue

\* C33: the producer discards a queued record only when the queue is at
\* capacity at that moment, under every interleaving with a drain: no
\* record is discarded while the queue has free space.
C33_DropOnlyAtCapacity ==
    [][DropRemoves => queue_full(queue)]_vars


-----------------------------------------------------------------------------
(* Properties of the queue across a reconnect *)

\* C34: no queued record is lost across a reconnect: a record leaves the
\* queue only into the list of a drain or, at a full queue, by the drop
\* that makes room for a new one, also when a reconnect replaces the
\* subscriber before the next drain.
C34_QueuedRecordsSurviveReconnect ==
    [][(queue # <<>> /\ Len(queue') < Len(queue))
          => (taken' = Append(taken, Head(queue)) \/ queue_full(queue))]_vars

=============================================================================
